---- MODULE Spec2Model ----
(***************************************************************************)
(* Purchase-order conversion core: template merge engine                   *)
(* (order_generation/merge_json_templates.py), accessory resolver          *)
(* (order_generation/direct_sku_to_json.py), parent grouping               *)
(* (order_generation/advanced_excel_to_json.py, convert_all_excel.py) and  *)
(* the order writers (order_generation/json_PO_excel.py, PO_excel.py),     *)
(* and the extraction side: cell grid, label resolver and table detectors  *)
(* (order_generation/excel_to_json.py, advanced_excel_to_json.py).         *)
(*                                                                         *)
(* Each component is a sequential procedure; a component's specification   *)
(* draws its inputs in Init and runs the procedure statement by statement, *)
(* while the variables of the other components stay idle.                  *)
(***************************************************************************)
EXTENDS Integers, Sequences, FiniteSets, TLC

VARIABLES
    paths, merged, stderr, idx, m_pc,   \* merge_json_templates
    requests, mapping, result, b_idx, a_idx, b_local, b_pc,   \* _compute_all_items
    g_impl, parents, g_products, groups, g_idx, g_pc,   \* group_by_parent / _group_products
    writer, template, data, ws, mismatches, offset, saved, w_pc,   \* order writers
    lr_cells, lr_addr, lr_results, lr_pc,   \* guess_key
    x_impl, files, x_file, grid, x_row, x_header, x_products, x_cells, x_docs, x_written, x_pc,   \* parse_order and batch drivers
    rd_pkg, rd_shared, rd_fills, rd_xfs, rd_cells, rd_idx, rd_error, rd_pc,   \* read_workbook
    gn_requests, gn_mapping, gn_templates, gn_items, gn_idx, gn_temp, gn_out, gn_excel, gn_stdout, gn_stderr, gn_pc,   \* generate_factory_jsons
    cv_val, cv_result, cv_pc,   \* convert_number
    sc_cells, sc_address, sc_r, sc_key, sc_pc   \* guess_key, step by step

mergeVars == <<paths, merged, stderr, idx, m_pc>>
bomVars == <<requests, mapping, result, b_idx, a_idx, b_local, b_pc>>
groupVars == <<g_impl, parents, g_products, groups, g_idx, g_pc>>
writerVars == <<writer, template, data, ws, mismatches, offset, saved, w_pc>>
labelVars == <<lr_cells, lr_addr, lr_results, lr_pc>>
extractVars == <<x_impl, files, x_file, grid, x_row, x_header, x_products, x_cells, x_docs, x_written, x_pc>>
readerVars == <<rd_pkg, rd_shared, rd_fills, rd_xfs, rd_cells, rd_idx, rd_error, rd_pc>>
genVars == <<gn_requests, gn_mapping, gn_templates, gn_items, gn_idx, gn_temp, gn_out, gn_excel, gn_stdout, gn_stderr, gn_pc>>
coerceVars == <<cv_val, cv_result, cv_pc>>
scanVars == <<sc_cells, sc_address, sc_r, sc_key, sc_pc>>
vars == <<mergeVars, bomVars, groupVars, writerVars, labelVars, extractVars, readerVars, genVars, coerceVars, scanVars>>

(***************************************************************************)
(* Python values.  Cell values, labels and footer fields are text (the     *)
(* extractors produce str for every value); None stands for a missing      *)
(* dictionary key (dict.get without default).                              *)
(***************************************************************************)
None == "<None>"

\* Python truthiness of a str-or-None value: `not v`.
Falsy(v) == v \in {None, ""}

Max(a, b) == IF a >= b THEN a ELSE b

RECURSIVE SumSeq(_)
SumSeq(s) == IF s = <<>> THEN 0 ELSE Head(s) + SumSeq(Tail(s))

(***************************************************************************)
(*                      TEMPLATE MERGE ENGINE                              *)
(* order_generation/merge_json_templates.py                                *)
(***************************************************************************)

\* Largest number of documents handed to one merge.
MaxDocs == 3

\* Cell addresses of the documents, in the order the JSON objects list them.
AddrSeq == <<"B3", "G3">>
Addrs == {AddrSeq[i] : i \in 1..Len(AddrSeq)}

FooterKeys == {"buyer", "supplier"}

\* The label recorded for an address (the template's printed label).
KeyOf(addr) == IF addr = "B3" THEN "supplier:" ELSE "order no"

CellOf(addr, v) == [key |-> KeyOf(addr), value |-> v]

\* `merged["cells"].get(addr)` of a missing address: None; an empty dict {}
\* has neither key nor value and is falsy as well.
NoCell == [key |-> None, value |-> None]

\* dict.get(addr) on a cells mapping.
GetCell(cells, addr) == IF addr \in DOMAIN cells THEN cells[addr] ELSE NoCell

\* Variant of _select_cell that keeps an existing cell even when its value
\* is empty.
select_cell_KeepsEmpty(existing, new, addr) ==
    IF existing = NoCell
    THEN [cell |-> new, msgs |-> <<>>]
    ELSE [cell |-> existing,
          msgs |-> IF ~Falsy(new.value) /\ new.value # existing.value
                   THEN << [addr |-> addr, keeping |-> existing.value,
                            ignoring |-> new.value] >>
                   ELSE <<>>]

\* Variant of _select_cell that also reports an incoming empty value.
select_cell_NoisyDiag(existing, new, addr) ==
    IF existing = NoCell \/ Falsy(existing.value)
    THEN [cell |-> new, msgs |-> <<>>]
    ELSE [cell |-> existing,
          msgs |-> IF new.value # existing.value
                   THEN << [addr |-> addr, keeping |-> existing.value,
                            ignoring |-> new.value] >>
                   ELSE <<>>]

\* _select_cell, lines 7-22.  Returns the preferred cell and the messages
\* printed to stderr while choosing.
select_cell(existing, new, addr) ==
    IF existing = NoCell \/ Falsy(existing.value)
    THEN [cell |-> new, msgs |-> <<>>]
    ELSE [cell |-> existing,
          msgs |-> IF ~Falsy(new.value) /\ new.value # existing.value
                   THEN << [addr |-> addr, keeping |-> existing.value,
                            ignoring |-> new.value] >>
                   ELSE <<>>]

\* Variant of merge_cells in which an incoming cell never replaces or adds
\* to what is already merged.
RECURSIVE merge_cells(_, _, _)
merge_cells_OnlyExisting(mcells, dcells, todo) ==
    IF todo = <<>>
    THEN [cells |-> mcells, msgs |-> <<>>]
    ELSE LET addr == Head(todo)
         IN  IF addr \notin DOMAIN dcells \/ addr \notin DOMAIN mcells
             THEN merge_cells(mcells, dcells, Tail(todo))
             ELSE LET sel  == select_cell(GetCell(mcells, addr), dcells[addr], addr)
                      next == [a \in DOMAIN mcells \cup {addr} |->
                                 IF a = addr THEN sel.cell ELSE mcells[a]]
                      rest == merge_cells(next, dcells, Tail(todo))
                  IN  [cells |-> rest.cells, msgs |-> sel.msgs \o rest.msgs]

\* Lines 48-50: `for addr, info in cells.items(): merged["cells"][addr] =
\* _select_cell(merged["cells"].get(addr), info, addr)`, over the addresses
\* `todo` of the incoming document still to be visited.
merge_cells(mcells, dcells, todo) ==
    IF todo = <<>>
    THEN [cells |-> mcells, msgs |-> <<>>]
    ELSE LET addr == Head(todo)
         IN  IF addr \notin DOMAIN dcells
             THEN merge_cells(mcells, dcells, Tail(todo))
             ELSE LET sel  == select_cell(GetCell(mcells, addr), dcells[addr], addr)
                      next == [a \in DOMAIN mcells \cup {addr} |->
                                 IF a = addr THEN sel.cell ELSE mcells[a]]
                      rest == merge_cells(next, dcells, Tail(todo))
                  IN  [cells |-> rest.cells, msgs |-> sel.msgs \o rest.msgs]

\* Variant of extend_products that drops a line item whose SKU is already
\* in the merged list.
extend_products_Dedup(mproducts, dproducts) ==
    mproducts \o SelectSeq(dproducts,
        LAMBDA p : \A i \in 1..Len(mproducts) : mproducts[i].sku # p.sku)

\* Line 46: merged["products"].extend(data.get("products", [])).
extend_products(mproducts, dproducts) == mproducts \o dproducts

\* Variant of merge_footer in which a later non-empty value replaces the
\* one already held.
merge_footer_LastWins(mfooter, dfooter) ==
    [k \in DOMAIN mfooter \cup DOMAIN dfooter |->
        IF k \in DOMAIN dfooter THEN dfooter[k] ELSE mfooter[k]]

\* Lines 52-55: a footer key is taken over when the merged footer lacks it
\* or holds a falsy value for it.  Nothing is printed.
merge_footer(mfooter, dfooter) ==
    [k \in DOMAIN mfooter \cup DOMAIN dfooter |->
        IF k \in DOMAIN dfooter /\ (k \notin DOMAIN mfooter \/ Falsy(mfooter[k]))
        THEN dfooter[k]
        ELSE mfooter[k]]

\* One iteration of the loop of lines 42-55 for the document `doc`.
MergeOne(m, doc) ==
    LET mc == merge_cells(m.cells, doc.cells, AddrSeq)
    IN  [doc  |-> [cells    |-> mc.cells,
                   products |-> extend_products(m.products, doc.products),
                   footer   |-> merge_footer(m.footer, doc.footer)],
         msgs |-> mc.msgs]

\* merge_json_templates, lines 25-57, as a function of a non-empty list of
\* documents: the first document is the base, the others are merged in order.
RECURSIVE MergeFrom(_, _)
MergeFrom(m, rest) ==
    IF rest = <<>>
    THEN [doc |-> m, msgs |-> <<>>]
    ELSE LET one == MergeOne(m, Head(rest))
             more == MergeFrom(one.doc, Tail(rest))
         IN  [doc |-> more.doc, msgs |-> one.msgs \o more.msgs]

merge_json_templates(ps) == MergeFrom(Head(ps), Tail(ps))

\* ---- inputs ----
EmptyMap == [k \in {} |-> None]

EmptyDoc == [cells |-> EmptyMap, products |-> <<>>, footer |-> EmptyMap]

Product(sku, qty) == [sku |-> sku, qty |-> qty]

\* Documents that differ in their cells.
CellMaps ==
    { f \in UNION { [S -> {None, "", "x", "y"}] : S \in SUBSET Addrs } :
        /\ ("B3" \in DOMAIN f => f["B3"] # None)
        /\ ("G3" \in DOMAIN f => f["G3"] \in {None, "x"}) }

CellDocs ==
    { [cells    |-> [a \in DOMAIN f |-> CellOf(a, f[a])],
       products |-> <<>>,
       footer   |-> EmptyMap] : f \in CellMaps }

\* Documents that differ in their product lists.
ProductLists ==
    { <<>>,
      << Product("S1", 1) >>,
      << Product("S1", 2) >>,
      << Product("S2", 1) >>,
      << Product("S1", 1), Product("S2", 1) >>,
      << Product("S1", 1), Product("S1", 1) >> }

ProductDocs ==
    { [cells    |-> [a \in {"B3"} |-> CellOf(a, "x")],
       products |-> ps,
       footer   |-> EmptyMap] : ps \in ProductLists }

\* Documents that differ in their footers; two of them also differ from
\* the others in a cell.
Footers ==
    { f \in UNION { [S -> {"", "b1", "b2"}] : S \in SUBSET FooterKeys } :
        "supplier" \in DOMAIN f => f["supplier"] = "b1" }

FooterDocs ==
    { [cells    |-> [a \in {"B3"} |-> CellOf(a, "x")],
       products |-> <<>>,
       footer   |-> f] : f \in Footers }
    \cup
    { [cells    |-> [a \in {"B3"} |-> CellOf(a, "y")],
       products |-> <<>>,
       footer   |-> f] : f \in { EmptyMap, [k \in {"buyer"} |-> "b2"] } }

DocFamilies == {CellDocs, ProductDocs, FooterDocs}

SeqsUpTo(S, n) == UNION { [1..k -> S] : k \in 0..n }

InitMergeVars ==
    /\ paths \in UNION { SeqsUpTo(F, MaxDocs) : F \in DocFamilies }
    /\ merged = EmptyDoc
    /\ stderr = <<>>
    /\ idx = 0
    /\ m_pc = "start"

IdleMergeVars ==
    /\ paths = <<>>
    /\ merged = EmptyDoc
    /\ stderr = <<>>
    /\ idx = 0
    /\ m_pc = "idle"

\* ---- actions ----

\* Lines 32-33: an empty list of paths raises ValueError.
RaiseNoPaths ==
    /\ m_pc = "start"
    /\ paths = <<>>
    /\ m_pc' = "error"
    /\ UNCHANGED <<paths, merged, stderr, idx>>

\* Lines 35-40: the first document is loaded as the base.
LoadFirst ==
    /\ m_pc = "start"
    /\ paths # <<>>
    /\ merged' = paths[1]
    /\ idx' = 2
    /\ m_pc' = "loop"
    /\ UNCHANGED <<paths, stderr>>

\* Lines 42-55: one further document is merged in.
MergeNext ==
    /\ m_pc = "loop"
    /\ idx <= Len(paths)
    /\ LET one == MergeOne(merged, paths[idx])
       IN  /\ merged' = one.doc
           /\ stderr' = stderr \o one.msgs
    /\ idx' = idx + 1
    /\ UNCHANGED <<paths, m_pc>>

\* Line 57: return merged.
ReturnMerged ==
    /\ m_pc = "loop"
    /\ idx > Len(paths)
    /\ m_pc' = "done"
    /\ UNCHANGED <<paths, merged, stderr, idx>>

NextMerge == RaiseNoPaths \/ LoadFirst \/ MergeNext \/ ReturnMerged
(***************************************************************************)
(*                   ACCESSORY RESOLVER (bill of materials)                *)
(* order_generation/direct_sku_to_json.py                                  *)
(***************************************************************************)

\* Largest requested quantity and largest ratio term of the ratio inputs.
MaxQty == 3
MaxRatio == 3

\* SKUs, in the order the request dictionary lists them.
SkuSeq == <<"P1", "P2", "X">>
Skus == {SkuSeq[i] : i \in 1..Len(SkuSeq)}

\* A stored ratio term: an integer (or integer literal), a text int() cannot
\* parse (ValueError), or a missing key (acc.get(..., 1) yields 1).
IntTerm(n) == [kind |-> "int", n |-> n]
BadTerm == [kind |-> "bad", n |-> 0]
MissingTerm == [kind |-> "missing", n |-> 1]

Acc(sku, m, a) == [sku |-> sku, ratio_main |-> m, ratio_accessory |-> a]

\* Lines 60-64: both terms are parsed; if either raises ValueError both
\* become 1.
ParseRatio(acc) ==
    IF acc.ratio_main.kind = "bad" \/ acc.ratio_accessory.kind = "bad"
    THEN [main |-> 1, accessory |-> 1]
    ELSE [main |-> acc.ratio_main.n, accessory |-> acc.ratio_accessory.n]

\* Variant of acc_qty_of that rounds up.
acc_qty_Ceil(qty, accessory, main) == (qty * accessory + main - 1) \div main

\* Line 65: acc_qty = qty * accessory // main (Python floor division; main
\* is not 0 here, a zero divisor raises before a value exists).
acc_qty_of(qty, accessory, main) == (qty * accessory) \div main

\* mapping.get(sku, [])
AccessoriesOf(sku) == IF sku \in DOMAIN mapping THEN mapping[sku] ELSE <<>>

\* Variant of AddTo that stores n instead of adding it.
AddTo_Overwrite(res, sku, n) ==
    [k \in DOMAIN res \cup {sku} |-> IF k = sku THEN n ELSE res[k]]

\* result.get(sku, 0) + n stored back under sku.
AddTo(res, sku, n) ==
    [k \in DOMAIN res \cup {sku} |->
        IF k = sku THEN (IF sku \in DOMAIN res THEN res[sku] ELSE 0) + n
        ELSE res[k]]

\* ---- inputs ----
NoLocals == [sku |-> "", qty |-> 0, main |-> 0, accessory |-> 0, acc_qty |-> 0]

\* The request dictionary as the list of its items.
ReqItems(f) ==
    LET present == SelectSeq(SkuSeq, LAMBDA s : s \in DOMAIN f)
    IN  [i \in 1..Len(present) |-> [sku |-> present[i], qty |-> f[present[i]]]]

RawTerms == {BadTerm, MissingTerm} \cup {IntTerm(n) : n \in 0..MaxRatio}

\* One requested SKU with one accessory, every ratio and quantity.
RatioInputs ==
    { [requests |-> << [sku |-> "P1", qty |-> q] >>,
       mapping  |-> [s \in {"P1"} |-> << Acc("X", m, a) >>]] :
         q \in (-1)..MaxQty \cup {100}, m \in RawTerms, a \in RawTerms }

\* Accessory lists of the parents P1 and P2 and of the accessory X.
AccListsP1 ==
    { <<>>,
      << Acc("X", IntTerm(3), IntTerm(1)) >>,
      << Acc("X", IntTerm(2), IntTerm(3)) >>,
      << Acc("", IntTerm(1), IntTerm(1)) >>,
      << Acc("X", BadTerm, IntTerm(2)) >>,
      << Acc("X", IntTerm(0), IntTerm(1)) >>,
      << Acc("X", IntTerm(1), IntTerm(1)), Acc("P2", IntTerm(2), IntTerm(1)) >>,
      << Acc("X", IntTerm(2), IntTerm(1)), Acc("X", IntTerm(2), IntTerm(1)) >> }

AccListsP2 ==
    { <<>>,
      << Acc("X", IntTerm(2), IntTerm(1)) >>,
      << Acc("X", MissingTerm, IntTerm(2)) >> }

AccListsX == { <<>>, << Acc("P1", IntTerm(2), IntTerm(1)) >> }

\* Several requested SKUs over shared accessories.
SharedInputs ==
    { [requests |-> ReqItems(f),
       mapping  |-> [s \in Skus |-> IF s = "P1" THEN l1
                                    ELSE IF s = "P2" THEN l2 ELSE lx]] :
         f \in UNION { [S -> 0..MaxQty] : S \in SUBSET Skus },
         l1 \in AccListsP1, l2 \in AccListsP2, lx \in AccListsX }

InitBomVars ==
    /\ \E inp \in RatioInputs \cup SharedInputs :
         /\ requests = inp.requests
         /\ mapping = inp.mapping
    /\ result = EmptyMap
    /\ b_idx = 1
    /\ a_idx = 0
    /\ b_local = NoLocals
    /\ b_pc = "loop"

IdleBomVars ==
    /\ requests = <<>>
    /\ mapping = EmptyMap
    /\ result = EmptyMap
    /\ b_idx = 0
    /\ a_idx = 0
    /\ b_local = NoLocals
    /\ b_pc = "idle"
\* ---- actions (_compute_all_items, lines 55-69) ----

\* Lines 57-58: the next requested SKU is taken and its own quantity added.
BeginRequest ==
    /\ b_pc = "loop"
    /\ b_idx <= Len(requests)
    /\ LET r == requests[b_idx]
       IN  /\ result' = AddTo(result, r.sku, r.qty)
           /\ b_local' = [NoLocals EXCEPT !.sku = r.sku, !.qty = r.qty]
    /\ a_idx' = 1
    /\ b_pc' = "accessories"
    /\ UNCHANGED <<requests, mapping, b_idx>>

\* Lines 59-68: one accessory of the current requested SKU.
AccessoryStep ==
    /\ b_pc = "accessories"
    /\ a_idx <= Len(AccessoriesOf(b_local.sku))
    /\ LET acc   == AccessoriesOf(b_local.sku)[a_idx]
           ratio == ParseRatio(acc)
           q     == acc_qty_of(b_local.qty, ratio.accessory, ratio.main)
       IN  /\ ratio.main # 0
           /\ b_local' = [b_local EXCEPT !.main = ratio.main,
                                         !.accessory = ratio.accessory,
                                         !.acc_qty = q]
           /\ result' = IF acc.sku # "" THEN AddTo(result, acc.sku, q) ELSE result
    /\ a_idx' = a_idx + 1
    /\ UNCHANGED <<requests, mapping, b_idx, b_pc>>

\* Line 65 with main = 0: ZeroDivisionError, which nothing catches.
AccessoryRaise ==
    /\ b_pc = "accessories"
    /\ a_idx <= Len(AccessoriesOf(b_local.sku))
    /\ ParseRatio(AccessoriesOf(b_local.sku)[a_idx]).main = 0
    /\ b_pc' = "error"
    /\ UNCHANGED <<requests, mapping, result, b_idx, a_idx, b_local>>

\* The accessory list of the current SKU is exhausted.
EndRequest ==
    /\ b_pc = "accessories"
    /\ a_idx > Len(AccessoriesOf(b_local.sku))
    /\ b_idx' = b_idx + 1
    /\ b_pc' = "loop"
    /\ UNCHANGED <<requests, mapping, result, a_idx, b_local>>

\* Line 69: return result.
ReturnResult ==
    /\ b_pc = "loop"
    /\ b_idx > Len(requests)
    /\ b_pc' = "done"
    /\ UNCHANGED <<requests, mapping, result, b_idx, a_idx, b_local>>

NextBom == BeginRequest \/ AccessoryStep \/ AccessoryRaise \/ EndRequest \/ ReturnResult
(***************************************************************************)
(*                         PARENT GROUPING                                 *)
(* order_generation/advanced_excel_to_json.py (group_by_parent) and        *)
(* convert_all_excel.py (_group_products)                                  *)
(***************************************************************************)

\* Largest number of extracted product rows handed to the grouping.
MaxRows == 3

\* SKU text is a sequence of characters, so that str.strip() is computed.
\* NoneText is p.get(<SKU field>) of a product without that field.
NoneText == << "<None>" >>
Whitespace == {" "}

RECURSIVE LStrip(_)
LStrip(t) == IF t # <<>> /\ Head(t) \in Whitespace THEN LStrip(Tail(t)) ELSE t

RECURSIVE RStrip(_)
RStrip(t) ==
    IF t # <<>> /\ t[Len(t)] \in Whitespace THEN RStrip(SubSeq(t, 1, Len(t) - 1)) ELSE t

\* str.strip()
Strip(t) == RStrip(LStrip(t))

SkuA  == << "A" >>
SkuA1 == << "A", "1" >>
SkuA2 == << "A", "2" >>
SkuB  == << "B" >>
SkuC  == << "C" >>

Family(parent, children) == [parent |-> parent, children |-> children]

\* CHILD_TO_PARENT (advanced_excel_to_json.py lines 24-26) and _SKU_TO_PARENT
\* (convert_all_excel.py lines 14-17), built from the "parents" object `pd`
\* in its listed order: a later family overrides an earlier one.
ListsChild(fam, sku) == \E j \in 1..Len(fam.children) : fam.children[j] = sku

InChildToParent(pd, sku) == \E i \in 1..Len(pd) : ListsChild(pd[i], sku)

CHILD_TO_PARENT(pd, sku) ==
    pd[CHOOSE i \in 1..Len(pd) :
          /\ ListsChild(pd[i], sku)
          /\ \A k \in (i + 1)..Len(pd) : ~ListsChild(pd[k], sku)].parent

\* CHILD_TO_PARENT.get(sku, sku)
parent_of(pd, sku) == IF InChildToParent(pd, sku) THEN CHILD_TO_PARENT(pd, sku) ELSE sku

\* _SKU_TO_NAME (convert_all_excel.py line 10): sku -> name, "" when the
\* accessory mapping gives no name.
SKU_TO_NAME(sku) == IF sku = SkuA1 THEN "brush" ELSE IF sku = SkuC THEN "" ELSE None

\* Variant of setdefault_append in which the product replaces the group.
setdefault_append_Overwrite(g, parent, p) ==
    [k \in DOMAIN g \cup {parent} |-> IF k = parent THEN << p >> ELSE g[k]]

\* groups.setdefault(parent, []).append(p)
setdefault_append(g, parent, p) ==
    [k \in DOMAIN g \cup {parent} |->
        IF k = parent
        THEN (IF parent \in DOMAIN g THEN g[parent] ELSE <<>>) \o << p >>
        ELSE g[k]]

\* convert_all_excel.py line 32: str(item.get(<SKU field>, '')).strip()
stripped_sku(p) == Strip(IF p.sku = NoneText THEN <<>> ELSE p.sku)

\* ---- inputs ----
ParentMaps ==
    { <<>>,
      << Family(SkuA, << SkuA, SkuA1 >>) >>,
      << Family(SkuA, << SkuA1, SkuA2 >>) >>,
      << Family(SkuA, << SkuA, SkuA1 >>), Family(SkuB, << SkuB, SkuA1 >>) >> }

\* SKUs as the keyword-based extraction leaves them (already stripped, or
\* absent when the header has no SKU column).
StrippedSkus == { NoneText, <<>>, SkuA, SkuA1, SkuC }

\* SKUs as the style-based extraction leaves them (raw cell text).
RawSkus == { <<>>, SkuA, SkuA1, SkuC, << "A", "1", " " >>, << " ", "C" >> }

Row(i, sku) == [row |-> i, sku |-> sku, name |-> None]

ProductRows(S) ==
    UNION { { [i \in 1..n |-> Row(i, f[i])] : f \in [1..n -> S] } : n \in 0..MaxRows }

InitGroupVars ==
    /\ g_impl \in {"advanced", "convert_all"}
    /\ g_products \in ProductRows(IF g_impl = "advanced" THEN StrippedSkus ELSE RawSkus)
    /\ parents \in ParentMaps
    /\ groups = EmptyMap
    /\ g_idx = 1
    /\ g_pc = "loop"

IdleGroupVars ==
    /\ g_impl = "idle"
    /\ g_products = <<>>
    /\ parents = <<>>
    /\ groups = EmptyMap
    /\ g_idx = 0
    /\ g_pc = "idle"

\* ---- actions ----

\* advanced_excel_to_json.py lines 123-126: one product of the loop.
group_by_parent_Step ==
    /\ g_impl = "advanced"
    /\ g_pc = "loop"
    /\ g_idx <= Len(g_products)
    /\ LET p == g_products[g_idx]
           parent == parent_of(parents, p.sku)
       IN  groups' = setdefault_append(groups, parent, p)
    /\ g_idx' = g_idx + 1
    /\ UNCHANGED <<g_impl, g_products, parents, g_pc>>

\* convert_all_excel.py lines 31-37: one product of the loop; the product
\* name is filled in from the accessory mapping when it has one.
group_products_Step ==
    /\ g_impl = "convert_all"
    /\ g_pc = "loop"
    /\ g_idx <= Len(g_products)
    /\ LET sku == stripped_sku(g_products[g_idx])
           parent == parent_of(parents, sku)
           name == SKU_TO_NAME(sku)
           item == IF ~Falsy(name) THEN [g_products[g_idx] EXCEPT !.name = name]
                   ELSE g_products[g_idx]
       IN  /\ groups' = setdefault_append(groups, parent, item)
           /\ g_products' = [g_products EXCEPT ![g_idx] = item]
    /\ g_idx' = g_idx + 1
    /\ UNCHANGED <<g_impl, parents, g_pc>>

\* return groups
ReturnGroups ==
    /\ g_pc = "loop"
    /\ g_idx > Len(g_products)
    /\ g_pc' = "done"
    /\ UNCHANGED <<g_impl, g_products, parents, groups, g_idx>>

NextGroup == group_by_parent_Step \/ group_products_Step \/ ReturnGroups
(***************************************************************************)
(*                           ORDER WRITERS                                 *)
(* order_generation/json_PO_excel.py and PO_excel.py                       *)
(***************************************************************************)

START_ROW == 7
PLACEHOLDER_ROWS == 3
BUYER_ROW == 69

\* Longest product list handed to a writer.
MaxProducts == 4

\* Worksheet columns A..G.
ColA == 1
ColB == 2
ColC == 3
ColD == 4
ColE == 5
ColF == 6
ColG == 7

\* A cell value: nothing, text (a sequence of characters), a number, the
\* row formula "=E{r1}*D{r2}" or the total formula "=SUM({col}{r1}:{col}{r2})".
NoVal      == [kind |-> "none", text |-> <<>>, col |-> 0, r1 |-> 0, r2 |-> 0]
Txt(t)     == [kind |-> "text", text |-> t, col |-> 0, r1 |-> 0, r2 |-> 0]
Num(n)     == [kind |-> "num", text |-> <<>>, col |-> 0, r1 |-> n, r2 |-> 0]
MulF(e, d) == [kind |-> "mul", text |-> <<>>, col |-> 0, r1 |-> e, r2 |-> d]
SumF(c, a, b) == [kind |-> "sum", text |-> <<>>, col |-> c, r1 |-> a, r2 |-> b]

\* A worksheet cell: its value and its formatting (font, border, fill,
\* number format, alignment as one style token).
Cell(v, style) == [v |-> v, style |-> style]

\* ws[address].value; a cell that does not exist reads as None.
ValueAt(sheet, a) == IF a \in DOMAIN sheet.cells THEN sheet.cells[a].v ELSE NoVal

StyleAt(sheet, a) == IF a \in DOMAIN sheet.cells THEN sheet.cells[a].style ELSE "default"

\* ws[address] = value / ws.cell(row, column, value): the value changes,
\* the formatting stays.
SetValue(sheet, a, v) ==
    [sheet EXCEPT !.cells =
        [b \in DOMAIN sheet.cells \cup {a} |->
            IF b = a THEN Cell(v, StyleAt(sheet, a)) ELSE sheet.cells[b]]]

\* A document value written into a cell: text, or None for a missing value.
AsVal(t) == IF t = NoneText THEN NoVal ELSE Txt(t)

\* json_PO_excel.py lines 28-29: the template's text at an address,
\* str(value).strip(), "" for an empty cell.
template_text(sheet, a) ==
    LET v == ValueAt(sheet, a) IN IF v.kind = "none" THEN <<>> ELSE Strip(v.text)

\* The mismatch line of json_PO_excel.py line 31.
MismatchOf(sheet, entry) ==
    [addr |-> entry.addr, template |-> template_text(sheet, entry.addr), json |-> entry.key]

\* Variant of verify_cells that stops at the first mismatch.
RECURSIVE verify_cells(_, _)
verify_cells_FirstOnly(sheet, cells) ==
    IF cells = <<>> THEN <<>>
    ELSE LET e == Head(cells)
         IN  IF e.key # NoneText /\ template_text(sheet, e.addr) # e.key
             THEN << MismatchOf(sheet, e) >>
             ELSE verify_cells(sheet, Tail(cells))

\* verify_cells, json_PO_excel.py lines 23-31: the mismatches collected
\* over cells.items(), in document order.
verify_cells(sheet, cells) ==
    IF cells = <<>> THEN <<>>
    ELSE LET e == Head(cells)
             rest == verify_cells(sheet, Tail(cells))
         IN  IF e.key # NoneText /\ template_text(sheet, e.addr) # e.key
             THEN << MismatchOf(sheet, e) >> \o rest
             ELSE rest

\* PO_excel.py lines 26-43 for one entry: the entry passes when it has no
\* label, or the cell itself or the cell to its left holds the label.
po_entry_ok(sheet, e) ==
    \/ e.key = NoneText
    \/ e.key = <<>>
    \/ ValueAt(sheet, e.addr) = Txt(e.key)
    \/ /\ e.addr[1] > 1
       /\ ValueAt(sheet, << e.addr[1] - 1, e.addr[2] >>) = Txt(e.key)

\* validate_cells, PO_excel.py lines 19-47: the error of the first entry
\* that does not pass, in document order; <<>> when every entry passes.
RECURSIVE validate_cells(_, _)
validate_cells(sheet, cells) ==
    IF cells = <<>> THEN <<>>
    ELSE LET e == Head(cells)
         IN  IF po_entry_ok(sheet, e)
             THEN validate_cells(sheet, Tail(cells))
             ELSE << [addr |-> e.addr, template |-> ValueAt(sheet, e.addr).text,
                      json |-> e.key] >>

\* fill_cells, json_PO_excel.py lines 39-44: meta.get("value", "").
RECURSIVE fill_cells(_, _)
fill_cells(sheet, cells) ==
    IF cells = <<>> THEN sheet
    ELSE LET e == Head(cells)
             v == IF e.value = NoneText THEN Txt(<<>>) ELSE Txt(e.value)
         IN  fill_cells(SetValue(sheet, e.addr, v), Tail(cells))

\* fill_cells, PO_excel.py lines 52-54: meta.get("value").
RECURSIVE po_fill_cells(_, _)
po_fill_cells(sheet, cells) ==
    IF cells = <<>> THEN sheet
    ELSE LET e == Head(cells)
         IN  po_fill_cells(SetValue(sheet, e.addr, AsVal(e.value)), Tail(cells))
\* ws.insert_rows(idx, amount) (openpyxl): every cell in row idx or below
\* moves down by amount, value and formatting together; row heights and
\* formula texts are left as they are.
insert_rows(sheet, at, amount) ==
    LET moved(a) == IF a[2] >= at THEN << a[1], a[2] + amount >> ELSE a
        dom == { moved(a) : a \in DOMAIN sheet.cells }
    IN  [sheet EXCEPT !.cells =
            [b \in dom |-> IF b[2] >= at + amount
                           THEN sheet.cells[<< b[1], b[2] - amount >>]
                           ELSE sheet.cells[b]]]

\* ws.max_column
max_column(sheet) ==
    IF DOMAIN sheet.cells = {} THEN 1
    ELSE CHOOSE c \in { a[1] : a \in DOMAIN sheet.cells } :
            \A a \in DOMAIN sheet.cells : a[1] <= c

HeightAt(sheet, r) == IF r \in DOMAIN sheet.height THEN sheet.height[r] ELSE "default"

\* _clone_row, json_PO_excel.py lines 47-58: row height and the formatting
\* of every column 1..max_column are copied from row src to row tgt.
clone_row(sheet, src, tgt) ==
    LET cols == 1..max_column(sheet)
        dom  == DOMAIN sheet.cells \cup { << c, r >> : c \in cols, r \in {src, tgt} }
    IN  [sheet EXCEPT
           !.height = [r \in DOMAIN sheet.height \cup {tgt} |->
                          IF r = tgt THEN HeightAt(sheet, src) ELSE sheet.height[r]],
           !.cells  = [a \in dom |->
                          IF a[2] = tgt /\ a[1] \in cols
                          THEN Cell(ValueAt(sheet, a), StyleAt(sheet, << a[1], src >>))
                          ELSE Cell(ValueAt(sheet, a), StyleAt(sheet, a))]]

\* json_PO_excel.py lines 68-69: for i in range(extra): _clone_row(...).
RECURSIVE clone_rows(_, _, _, _)
clone_rows(sheet, template_row, i, extra) ==
    IF i >= extra THEN sheet
    ELSE clone_rows(clone_row(sheet, template_row, template_row + 1 + i),
                    template_row, i + 1, extra)

\* A product of the document; a placeholder row is filled from {}.
NoItem == [sku |-> <<>>, img |-> "none", name |-> <<>>, desc |-> <<>>,
           qty |-> Txt(<<>>), price |-> Txt(<<>>), pack |-> <<>>]

\* json_PO_excel.py lines 88-91: name and description joined.
Description(item) ==
    LET name == Strip(item.name)
        desc == Strip(item.desc)
    IN  IF name # <<>>
        THEN (IF desc # <<>> THEN name \o << " " >> \o desc ELSE name)
        ELSE desc

\* The image column: an image that loads is anchored at B{r}; one that
\* does not load leaves its reference as text in the cell.
ImagePath(item) == << "i", "m", "g" >>

\* Variant of write_row that stores the product of quantity and price as a
\* number in column F.
write_row_Precomputed(sheet, r, item) ==
    LET s1 == SetValue(sheet, << ColA, r >>, Txt(item.sku))
        s2 == SetValue(s1, << ColB, r >>, Txt(<<>>))
        s4 == SetValue(s2, << ColC, r >>, Txt(Description(item)))
        s5 == SetValue(s4, << ColD, r >>, item.qty)
        s6 == SetValue(s5, << ColE, r >>, item.price)
        s7 == SetValue(s6, << ColF, r >>, Num(item.qty.r1 * item.price.r1))
    IN  SetValue(s7, << ColG, r >>, Txt(item.pack))

\* json_PO_excel.py lines 75-96: the cells of product row r.
write_row(sheet, r, item) ==
    LET s1 == SetValue(sheet, << ColA, r >>, Txt(item.sku))
        s2 == SetValue(s1, << ColB, r >>, Txt(<<>>))
        s3 == IF item.img = "ok" THEN [s2 EXCEPT !.images = @ \cup {<< ColB, r >>}]
              ELSE IF item.img = "bad" THEN SetValue(s2, << ColB, r >>, Txt(ImagePath(item)))
              ELSE s2
        s4 == SetValue(s3, << ColC, r >>, Txt(Description(item)))
        s5 == SetValue(s4, << ColD, r >>, item.qty)
        s6 == SetValue(s5, << ColE, r >>, item.price)
        s7 == SetValue(s6, << ColF, r >>, MulF(r, r))
    IN  SetValue(s7, << ColG, r >>, Txt(item.pack))

\* PO_excel.py lines 68-88: the cells of product row r; column B is written
\* only when there is no image or the image does not load.
po_write_row(sheet, r, item) ==
    LET s1 == SetValue(sheet, << ColA, r >>, Txt(item.sku))
        s3 == IF item.img = "ok" THEN [s1 EXCEPT !.images = @ \cup {<< ColB, r >>}]
              ELSE IF item.img = "bad" THEN SetValue(s1, << ColB, r >>, Txt(ImagePath(item)))
              ELSE SetValue(s1, << ColB, r >>, Txt(<<>>))
        s4 == SetValue(s3, << ColC, r >>, Txt(Description(item)))
        s5 == SetValue(s4, << ColD, r >>, item.qty)
        s6 == SetValue(s5, << ColE, r >>, item.price)
        s7 == SetValue(s6, << ColF, r >>, MulF(r, r))
    IN  SetValue(s7, << ColG, r >>, Txt(item.pack))

ItemAt(products, i) == IF i + 1 <= Len(products) THEN products[i + 1] ELSE NoItem

\* The loop `for idx in range(row_count)` of both writers, from index i.
RECURSIVE write_rows(_, _, _, _, _)
write_rows(sheet, products, i, row_count, impl) ==
    IF i >= row_count THEN sheet
    ELSE LET r == START_ROW + i
             next == IF impl = "json_PO_excel"
                     THEN write_row(sheet, r, ItemAt(products, i))
                     ELSE po_write_row(sheet, r, ItemAt(products, i))
         IN  write_rows(next, products, i + 1, row_count, impl)

\* The totals below the last product row (json_PO_excel.py lines 98-100,
\* PO_excel.py lines 90-92).
write_totals(sheet, row_count) ==
    LET total_row == START_ROW + row_count
        s1 == SetValue(sheet, << ColD, total_row >>, SumF(ColD, START_ROW, total_row - 1))
    IN  SetValue(s1, << ColF, total_row >>, SumF(ColF, START_ROW, total_row - 1))

\* extra = max(0, len(products) - PLACEHOLDER_ROWS)
extra_rows(products) == Max(0, Len(products) - PLACEHOLDER_ROWS)

\* insert_products, json_PO_excel.py lines 61-101.
insert_products(sheet, products) ==
    LET template_row == START_ROW + PLACEHOLDER_ROWS - 1
        extra == extra_rows(products)
        s1 == IF extra # 0
              THEN clone_rows(insert_rows(sheet, template_row + 1, extra),
                              template_row, 0, extra)
              ELSE sheet
        row_count == Max(Len(products), PLACEHOLDER_ROWS)
    IN  write_totals(write_rows(s1, products, 0, row_count, "json_PO_excel"), row_count)

\* insert_products, PO_excel.py lines 56-93.
po_insert_products(sheet, products) ==
    LET extra == extra_rows(products)
        s1 == IF extra # 0
              THEN insert_rows(sheet, START_ROW + PLACEHOLDER_ROWS, extra)
              ELSE sheet
        row_count == Max(Len(products), PLACEHOLDER_ROWS)
    IN  write_totals(write_rows(s1, products, 0, row_count, "PO_excel"), row_count)

\* The footer block of create_order_workbook (json_PO_excel.py lines
\* 113-120, PO_excel.py lines 102-109).
write_footer(sheet, footer, off) ==
    LET s1 == IF "buyer" \in DOMAIN footer
              THEN SetValue(sheet, << ColB, BUYER_ROW + off >>, Txt(footer["buyer"]))
              ELSE sheet
    IN  IF "supplier" \in DOMAIN footer
        THEN SetValue(s1, << ColE, BUYER_ROW + off >>, Txt(footer["supplier"]))
        ELSE s1
\* ---- inputs ----
AddrA3  == << ColA, 3 >>
AddrB3  == << ColB, 3 >>
AddrG3  == << ColG, 3 >>

LabelL == << "L" >>
LabelM == << "M" >>
LabelN == << "N" >>

\* The fixed part of a blank template: three formatted placeholder rows,
\* the total row below them and the footer row.
TemplateBase ==
    [a \in ({ << c, r >> : c \in ColA..ColG,
                           r \in START_ROW..(START_ROW + PLACEHOLDER_ROWS - 1) }
            \cup { << ColA, START_ROW + PLACEHOLDER_ROWS >>,
                   << ColA, BUYER_ROW >>, << ColB, BUYER_ROW >>,
                   << ColD, BUYER_ROW >>, << ColE, BUYER_ROW >> }) |->
        IF a[2] < START_ROW + PLACEHOLDER_ROWS THEN Cell(NoVal, "product")
        ELSE IF a[2] = START_ROW + PLACEHOLDER_ROWS THEN Cell(Txt(<< "T" >>), "total")
        ELSE IF a[1] = ColA THEN Cell(Txt(<< "b", ":" >>), "footer")
        ELSE IF a[1] = ColD THEN Cell(Txt(<< "s", ":" >>), "footer")
        ELSE Cell(NoVal, "footer")]

\* The header cells of a template: what A3, B3 and G3 hold (NoneText for a
\* cell the template does not have).
HeaderChoices ==
    { [a3 |-> x, b3 |-> y, g3 |-> z] :
        x \in {NoneText, LabelL},
        y \in {NoneText, LabelL, << " ", "L", " " >>, LabelM},
        z \in {NoneText, LabelN} }

TemplateOf(h) ==
    LET hdr == { a \in {AddrA3, AddrB3, AddrG3} :
                   (IF a = AddrA3 THEN h.a3 ELSE IF a = AddrB3 THEN h.b3 ELSE h.g3)
                   # NoneText }
    IN  [cells  |-> [a \in DOMAIN TemplateBase \cup hdr |->
                       IF a \in hdr
                       THEN Cell(Txt(IF a = AddrA3 THEN h.a3
                                     ELSE IF a = AddrB3 THEN h.b3 ELSE h.g3), "header")
                       ELSE TemplateBase[a]],
         height |-> [r \in START_ROW..(START_ROW + PLACEHOLDER_ROWS - 1) |-> "tall"],
         images |-> {}]

Templates == { TemplateOf(h) : h \in HeaderChoices }

Entry(a, k, v) == [addr |-> a, key |-> k, value |-> v]

\* The "cells" objects of the documents, as the list of their items.
EntriesB3 == { Entry(AddrB3, k, << "v" >>) : k \in {NoneText, <<>>, LabelL} }
EntriesG3 == { Entry(AddrG3, LabelN, NoneText), Entry(AddrG3, NoneText, << "w" >>) }

DocCells ==
    { <<>> } \cup { << e >> : e \in EntriesB3 \cup EntriesG3 }
    \cup { << e, f >> : e \in EntriesB3, f \in EntriesG3 }
    \cup { << f, e >> : e \in EntriesB3, f \in EntriesG3 }

\* The i-th product of the catalogue the product lists are cut from.
CatalogueItem(i) ==
    [sku   |-> [k \in 1..i |-> "S"],
     img   |-> IF i % 3 = 1 THEN "ok" ELSE IF i % 3 = 2 THEN "bad" ELSE "none",
     name  |-> IF i % 2 = 1 THEN << "n", " " >> ELSE <<>>,
     desc  |-> IF i % 3 = 0 THEN <<>> ELSE << "d" >>,
     qty   |-> Num(i),
     price |-> Num(2),
     pack  |-> << "p" >>]

DocFooters ==
    { EmptyMap,
      [k \in {"buyer"} |-> << "u" >>],
      [k \in {"buyer", "supplier"} |-> IF k = "buyer" THEN << "u" >> ELSE << "f" >>] }

OrderDocs ==
    { [cells |-> c, products |-> [i \in 1..n |-> CatalogueItem(i)], footer |-> f] :
        c \in DocCells, n \in 0..MaxProducts, f \in DocFooters }

NoSheet == [cells |-> EmptyMap, height |-> EmptyMap, images |-> {}]

\* create_order_workbook up to `ws = wb.active`: the template is loaded.
InitWriterVars ==
    /\ writer \in {"json_PO_excel", "PO_excel"}
    /\ template \in Templates
    /\ data \in OrderDocs
    /\ ws = template
    /\ mismatches = <<>>
    /\ offset = 0
    /\ saved = FALSE
    /\ w_pc = "verify"

IdleWriterVars ==
    /\ writer = "idle"
    /\ template = NoSheet
    /\ data = EmptyDoc
    /\ ws = NoSheet
    /\ mismatches = <<>>
    /\ offset = 0
    /\ saved = FALSE
    /\ w_pc = "idle"

\* ---- actions ----

\* json_PO_excel.py line 109, verify_cells returning normally.
VerifyCells ==
    /\ writer = "json_PO_excel"
    /\ w_pc = "verify"
    /\ verify_cells(ws, data.cells) = <<>>
    /\ w_pc' = "fill"
    /\ UNCHANGED <<writer, template, data, ws, mismatches, offset, saved>>

\* Variant of VerifyCellsRaise in which the values are written before the
\* labels are verified.
VerifyCellsRaise_AfterFill ==
    /\ writer = "json_PO_excel"
    /\ w_pc = "verify"
    /\ verify_cells(ws, data.cells) # <<>>
    /\ mismatches' = verify_cells(ws, data.cells)
    /\ ws' = fill_cells(ws, data.cells)
    /\ w_pc' = "error"
    /\ UNCHANGED <<writer, template, data, offset, saved>>

\* json_PO_excel.py lines 32-34: verify_cells raises ValueError carrying
\* the collected mismatches; create_order_workbook ends there.
VerifyCellsRaise ==
    /\ writer = "json_PO_excel"
    /\ w_pc = "verify"
    /\ verify_cells(ws, data.cells) # <<>>
    /\ mismatches' = verify_cells(ws, data.cells)
    /\ w_pc' = "error"
    /\ UNCHANGED <<writer, template, data, ws, offset, saved>>

\* json_PO_excel.py line 110: fill_cells.
FillCells ==
    /\ writer = "json_PO_excel"
    /\ w_pc = "fill"
    /\ ws' = fill_cells(ws, data.cells)
    /\ w_pc' = "insert"
    /\ UNCHANGED <<writer, template, data, mismatches, offset, saved>>

\* json_PO_excel.py line 111: offset = insert_products(ws, products).
InsertProducts ==
    /\ writer = "json_PO_excel"
    /\ w_pc = "insert"
    /\ ws' = insert_products(ws, data.products)
    /\ offset' = extra_rows(data.products)
    /\ w_pc' = "footer"
    /\ UNCHANGED <<writer, template, data, mismatches, saved>>

\* PO_excel.py line 51: validate_cells returning normally.
PoValidateCells ==
    /\ writer = "PO_excel"
    /\ w_pc = "verify"
    /\ validate_cells(ws, data.cells) = <<>>
    /\ w_pc' = "fill"
    /\ UNCHANGED <<writer, template, data, ws, mismatches, offset, saved>>

\* PO_excel.py lines 45-47: validate_cells raises ValueError for the first
\* entry that does not match.
PoValidateCellsRaise ==
    /\ writer = "PO_excel"
    /\ w_pc = "verify"
    /\ validate_cells(ws, data.cells) # <<>>
    /\ mismatches' = validate_cells(ws, data.cells)
    /\ w_pc' = "error"
    /\ UNCHANGED <<writer, template, data, ws, offset, saved>>

\* PO_excel.py lines 52-54: the values are written.
PoFillCells ==
    /\ writer = "PO_excel"
    /\ w_pc = "fill"
    /\ ws' = po_fill_cells(ws, data.cells)
    /\ w_pc' = "insert"
    /\ UNCHANGED <<writer, template, data, mismatches, offset, saved>>

\* PO_excel.py line 100: offset = insert_products(ws, products).
PoInsertProducts ==
    /\ writer = "PO_excel"
    /\ w_pc = "insert"
    /\ ws' = po_insert_products(ws, data.products)
    /\ offset' = extra_rows(data.products)
    /\ w_pc' = "footer"
    /\ UNCHANGED <<writer, template, data, mismatches, saved>>

\* The footer block, the same in both writers.
WriteFooter ==
    /\ w_pc = "footer"
    /\ ws' = write_footer(ws, data.footer, offset)
    /\ w_pc' = "save"
    /\ UNCHANGED <<writer, template, data, mismatches, offset, saved>>

\* wb.save(output)
SaveWorkbook ==
    /\ w_pc = "save"
    /\ saved' = TRUE
    /\ w_pc' = "done"
    /\ UNCHANGED <<writer, template, data, ws, mismatches, offset>>

NextWriter ==
    \/ VerifyCells \/ VerifyCellsRaise \/ FillCells \/ InsertProducts
    \/ PoValidateCells \/ PoValidateCellsRaise \/ PoFillCells \/ PoInsertProducts
    \/ WriteFooter \/ SaveWorkbook

(***************************************************************************)
(*                      CELL GRID AND LABEL RESOLVER                       *)
(* order_generation/excel_to_json.py                                       *)
(*                                                                         *)
(* A lr_cells maps an address << column, row >> to (value, color, formula).    *)
(* A column is its index: A = 1, ..., Z = 26, AA = 27; a column name has   *)
(* one letter exactly when the index is at most 26.  A value is text (a    *)
(* sequence of symbols) or None.                                           *)
(***************************************************************************)

YELLOW == "FFFFFF00"
OtherColor == "FFFF0000"
NoColor == "none"

\* Column Z, the last one whose name is a single letter.
ColZ == 26
ColAA == 27

GridCell(val, color) == [val |-> val, color |-> color, formula |-> "none"]

\* The tuple cells.get(addr, ('', None, None)) falls back to.
BlankCell == GridCell(<<>>, NoColor)

HasCell(cells, a) == a \in DOMAIN cells

\* `if left[0]` / `if cell[0]`: the value is neither None nor "".
TextFalsy(t) == t \in {NoneText, <<>>}

\* `cell and cell[1] != YELLOW and cell[0]` (lines 27 and 35-36).
Qualifies(cells, a) ==
    /\ HasCell(cells, a)
    /\ cells[a].color # YELLOW
    /\ ~TextFalsy(cells[a].val)

\* guess_key lines 31-39: the scan upward from row r in column col.
RECURSIVE look_upward(_, _, _)
look_upward(col, r, cells) ==
    IF r <= 0 THEN <<>>
    ELSE IF Qualifies(cells, << col, r >>) THEN cells[<< col, r >>].val
    ELSE look_upward(col, r - 1, cells)

\* Variant of guess_key that takes the nearest non-empty cell above,
\* highlighted or not.
guess_key_NearestAbove(address, cells) ==
    LET col == address[1]
        row == address[2]
        above == { r \in 1..(row - 1) :
                     HasCell(cells, << col, r >>) /\ ~TextFalsy(cells[<< col, r >>].val) }
    IN  IF col <= ColZ /\ col > ColA /\ Qualifies(cells, << col - 1, row >>)
        THEN cells[<< col - 1, row >>].val
        ELSE IF above = {} THEN <<>>
        ELSE cells[<< col, CHOOSE r \in above : \A q \in above : q <= r >>].val

\* guess_key, lines 11-39.  The cell to the left is looked at only for a
\* one-letter column after A (line 23: len(col) == 1 and col > 'A').
guess_key(address, cells) ==
    LET col == address[1]
        row == address[2]
    IN  IF col <= ColZ /\ col > ColA /\ Qualifies(cells, << col - 1, row >>)
        THEN cells[<< col - 1, row >>].val
        ELSE look_upward(col, row - 1, cells)

\* ---- inputs ----

\* Tallest grid handed to the resolver.
MaxGridRows == 3

\* Most invocations of the resolver on one grid.
MaxCalls == 2

ColumnSymbol(c) ==
    IF c = ColA THEN "A" ELSE IF c = ColB THEN "B" ELSE IF c = ColC THEN "C"
    ELSE IF c = ColD THEN "D" ELSE IF c = ColE THEN "E" ELSE IF c = ColF THEN "F"
    ELSE IF c = ColG THEN "G" ELSE IF c = ColZ THEN "Z" ELSE IF c = ColAA THEN "AA"
    ELSE "?"

RowSymbol(r) == << "0", "1", "2", "3", "4", "5", "6", "7", "8", "9" >>[(r % 10) + 1]

\* A text that tells where it was read: the address itself.
TextAt(a) ==
    IF a[2] < 10 THEN << ColumnSymbol(a[1]), RowSymbol(a[2]) >>
    ELSE << ColumnSymbol(a[1]), RowSymbol(a[2] \div 10), RowSymbol(a[2]) >>

\* What one cell of an input grid may be: missing, blank, without value,
\* plain text, highlighted text, highlighted blank, text on another fill.
CellKinds == {"absent", "blank", "novalue", "label", "entry", "hollow", "tinted"}

CellOfKind(k, a) ==
    IF k = "blank" THEN GridCell(<<>>, NoColor)
    ELSE IF k = "novalue" THEN GridCell(NoneText, NoColor)
    ELSE IF k = "label" THEN GridCell(TextAt(a), NoColor)
    ELSE IF k = "entry" THEN GridCell(TextAt(a), YELLOW)
    ELSE IF k = "hollow" THEN GridCell(<<>>, YELLOW)
    ELSE GridCell(TextAt(a), OtherColor)

GridOf(kinds) ==
    [a \in { b \in DOMAIN kinds : kinds[b] # "absent" } |-> CellOfKind(kinds[a], a)]

\* The grids the resolver is asked about: a highlighted target in column B
\* or AA, its left neighbour and the cells above it.
LabelRegion(c, r) == { << c - 1, r >> } \cup { << c, q >> : q \in 1..r }

LabelCases ==
    UNION { { [grid |-> GridOf(k), addr |-> << c, r >>] :
                k \in { f \in [LabelRegion(c, r) -> CellKinds] :
                           f[<< c, r >>] \in {"entry", "hollow"} } } :
            c \in {ColB, ColAA}, r \in 1..MaxGridRows }

NoGrid == [a \in {} |-> BlankCell]

InitLabelVars ==
    /\ \E case \in LabelCases :
          /\ lr_cells = case.grid
          /\ lr_addr = case.addr
    /\ lr_results = <<>>
    /\ lr_pc = "ready"

IdleLabelVars ==
    /\ lr_cells = NoGrid
    /\ lr_addr = << 0, 0 >>
    /\ lr_results = <<>>
    /\ lr_pc = "idle"

\* ---- actions ----

\* Variant of GuessKeyCall in which the cell that supplied the label is
\* removed from the grid.
GuessKeyCall_Consuming ==
    /\ lr_pc = "ready"
    /\ Len(lr_results) < MaxCalls
    /\ lr_results' = Append(lr_results, guess_key(lr_addr, lr_cells))
    /\ lr_cells' = [a \in { b \in DOMAIN lr_cells :
                          b = lr_addr \/ lr_cells[b].val # guess_key(lr_addr, lr_cells) } |-> lr_cells[a]]
    /\ UNCHANGED <<lr_addr, lr_pc>>

\* One invocation guess_key(address, cells); the function only reads cells.
GuessKeyCall ==
    /\ lr_pc = "ready"
    /\ Len(lr_results) < MaxCalls
    /\ lr_results' = Append(lr_results, guess_key(lr_addr, lr_cells))
    /\ UNCHANGED <<lr_cells, lr_addr, lr_pc>>

\* The caller is done with the grid.
GuessKeyDone ==
    /\ lr_pc = "ready"
    /\ lr_results # <<>>
    /\ lr_pc' = "done"
    /\ UNCHANGED <<lr_cells, lr_addr, lr_results>>

NextLabel == GuessKeyCall \/ GuessKeyDone

(***************************************************************************)
(*                         TABLE DETECTORS                                 *)
(* order_generation/excel_to_json.py (parse_order, by highlight fill) and  *)
(* order_generation/advanced_excel_to_json.py (by header keywords).        *)
(*                                                                         *)
(* A text is a sequence of symbols; the words the code looks for are       *)
(* single symbols, written in pinyin: "shuliang" (quantity), "danjia"      *)
(* (unit price), "zongji" (total), and so on.                              *)
(***************************************************************************)

\* COLUMNS = A..L (advanced_excel_to_json.py line 47).
LastTableCol == 12
COLUMNS == ColA..LastTableCol

\* The style-based detector looks at columns A..G from row 7 on
\* (excel_to_json.py lines 90-92).
FirstStyleRow == 7

\* Row 69 of the footer (excel_to_json.py lines 116-119).
FooterRow == 69

Digits == {"0", "1", "2", "3", "4", "5", "6", "7", "8", "9"}

DigitValue(d) == CHOOSE n \in 0..9 : << "0", "1", "2", "3", "4", "5", "6", "7", "8", "9" >>[n + 1] = d

RECURSIVE NatOf(_)
NatOf(t) == IF t = <<>> THEN 0 ELSE NatOf(SubSeq(t, 1, Len(t) - 1)) * 10 + DigitValue(t[Len(t)])

IsNat(t) == t # <<>> /\ \A i \in 1..Len(t) : t[i] \in Digits

Signs == {"-", "+"}

Unsigned(t) == IF t # <<>> /\ Head(t) \in Signs THEN Tail(t) ELSE t

\* Text int() accepts (surrounding blanks apart): [sign]digits.
IsInt(t) == IsNat(Unsigned(t))

IntOf(t) == IF Head(t) = "-" THEN 0 - NatOf(Tail(t)) ELSE NatOf(Unsigned(t))

\* digits[.digits] with one digit at least.
IsMantissa(m) ==
    /\ Cardinality({ i \in 1..Len(m) : m[i] = "." }) <= 1
    /\ \E i \in 1..Len(m) : m[i] \in Digits
    /\ \A i \in 1..Len(m) : m[i] \in Digits \cup {"."}

\* Text float() accepts (surrounding blanks apart):
\* [sign]mantissa[e[sign]digits].
IsFloat(t) ==
    LET u  == Unsigned(t)
        es == { i \in 1..Len(u) : u[i] = "e" }
    IN  IF es = {} THEN IsMantissa(u)
        ELSE \E i \in es :
                /\ Cardinality(es) = 1
                /\ IsMantissa(SubSeq(u, 1, i - 1))
                /\ IsInt(SubSeq(u, i + 1, Len(u)))

\* A float result keeps its digits.
Flt(t) == [kind |-> "float", text |-> t, col |-> 0, r1 |-> 0, r2 |-> 0]

\* What an uncaught exception leaves instead of a value.
Raised(e) == [kind |-> "raise", text |-> << e >>, col |-> 0, r1 |-> 0, r2 |-> 0]

\* Variant of convert_number without the try/except of lines 56 and 62.
convert_number_Unguarded(val) ==
    IF Strip(val) = <<>> THEN Txt(<<>>)
    ELSE IF \E i \in 1..Len(val) : val[i] = "."
         THEN (IF IsFloat(Strip(val)) THEN Flt(Strip(val)) ELSE Raised("ValueError"))
    ELSE IF IsInt(Strip(val)) THEN Num(IntOf(Strip(val)))
    ELSE Raised("ValueError")

\* convert_number, advanced_excel_to_json.py lines 55-63: blank text gives
\* "", text with a dot goes to float(), other text to int(), and the text
\* itself comes back when the conversion raises.
convert_number(val) ==
    IF Strip(val) = <<>> THEN Txt(<<>>)
    ELSE IF \E i \in 1..Len(val) : val[i] = "."
         THEN (IF IsFloat(Strip(val)) THEN Flt(Strip(val)) ELSE Txt(val))
    ELSE IF IsInt(Strip(val)) THEN Num(IntOf(Strip(val)))
    ELSE Txt(val)

\* HEADER_MAP, lines 28-45: header text -> field; "jine" (amount) maps to
\* None.
HeaderTexts ==
    { << "chanpinbianhao" >>, << "xinghao" >>, << "kehao" >>, << "chanpintupian" >>,
      << "tupian" >>, << "shangpinmingcheng" >>, << "mingcheng" >>, << "guige" >>,
      << "miaoshu" >>, << "shuliang" >>, << "shuliang", "/", "ge" >>, << "danjia" >>,
      << "danjia", "/", "ge" >>, << "jine" >>, << "baozhuangfangshi" >>, << "beizhu" >> }

HEADER_MAP(text) ==
    IF text \in { << "chanpinbianhao" >>, << "xinghao" >>, << "kehao" >> } THEN "sku"
    ELSE IF text \in { << "chanpintupian" >>, << "tupian" >> } THEN "img"
    ELSE IF text \in { << "shangpinmingcheng" >>, << "mingcheng" >>, << "guige" >>,
                       << "miaoshu" >> } THEN "desc"
    ELSE IF text \in { << "shuliang" >>, << "shuliang", "/", "ge" >> } THEN "qty"
    ELSE IF text \in { << "danjia" >>, << "danjia", "/", "ge" >> } THEN "price"
    ELSE IF text = << "jine" >> THEN None
    ELSE IF text = << "baozhuangfangshi" >> THEN "pack"
    ELSE "remark"

\* str(cells.get(f"{col}{r}", ("", None, None))[0]).strip(); str(None) is
\* the text "None".
cell_text(cells, a) ==
    IF ~HasCell(cells, a) THEN <<>>
    ELSE IF cells[a].val = NoneText THEN << "N", "o", "n", "e" >>
    ELSE Strip(cells[a].val)

\* max(row of addr for addr in cells), line 67.
max_row(cells) ==
    CHOOSE r \in { a[2] : a \in DOMAIN cells } : \A a \in DOMAIN cells : a[2] <= r

is_header_row(cells, r) ==
    /\ \E c \in COLUMNS : cell_text(cells, << c, r >>) \in { << "shuliang" >>, << "shuliang", "/", "ge" >> }
    /\ \E c \in COLUMNS : cell_text(cells, << c, r >>) \in { << "danjia" >>, << "danjia", "/", "ge" >> }

\* Variant of detect_header that is content with a quantity column alone.
detect_header_QtyOnly(cells) ==
    LET rows == { r \in 1..max_row(cells) :
                    \E c \in COLUMNS : cell_text(cells, << c, r >>)
                                         \in { << "shuliang" >>, << "shuliang", "/", "ge" >> } }
    IN  IF rows = {} THEN -1 ELSE CHOOSE r \in rows : \A q \in rows : r <= q

\* detect_header, lines 66-74, for a grid with at least one cell: the first
\* row holding a quantity word and a unit-price word, -1 when there is none.
detect_header(cells) ==
    LET rows == { r \in 1..max_row(cells) : is_header_row(cells, r) }
    IN  IF rows = {} THEN -1 ELSE CHOOSE r \in rows : \A q \in rows : r <= q

\* parse_table lines 78-82: the columns of the header row found in
\* HEADER_MAP, with their fields.
header_of(cells, header_row) ==
    [c \in { d \in COLUMNS : cell_text(cells, << d, header_row >>) \in HeaderTexts } |->
        HEADER_MAP(cell_text(cells, << c, header_row >>))]

\* Lines 87-93: the three conditions that end the table at a row.
all_empty(cells, row) == \A c \in COLUMNS : cell_text(cells, << c, row >>) = <<>>

is_total_row(cells, row) ==
    LET first == cell_text(cells, << ColA, row >>)
    IN  \/ (first # <<>> /\ Head(first) = "TOTAL")
        \/ first = << "zongji" >>

no_header_value(cells, row, header) ==
    \A c \in DOMAIN header : cell_text(cells, << c, row >>) = <<>>

\* Variant of table_ends that does not know the total marker.
table_ends_NoMarker(cells, row, header) ==
    \/ all_empty(cells, row)
    \/ no_header_value(cells, row, header)

table_ends(cells, row, header) ==
    \/ all_empty(cells, row)
    \/ is_total_row(cells, row)
    \/ no_header_value(cells, row, header)

\* A SKU made of digits only.
Sku07 == << "0", "7" >>

\* ACCESSORY_MAP[sku]["name"] (lines 100-102) for the SKUs it knows.
ACCESSORY_NAME(sku) ==
    IF sku = SkuA1 THEN << "b", "r", "u", "s", "h" >>
    ELSE IF sku = Sku07 THEN << "c", "a", "p" >>
    ELSE NoneText

\* Lines 94-102: the item of a row; of two columns with the same field the
\* later one wins.
item_of(cells, row, header) ==
    LET fields == { header[c] : c \in DOMAIN header } \ {None}
        last(f) == CHOOSE c \in DOMAIN header :
                      header[c] = f /\ \A d \in DOMAIN header : header[d] = f => d <= c
        base == [f \in fields |-> convert_number(cell_text(cells, << last(f), row >>))]
        named == /\ "sku" \in fields
                 /\ base["sku"].kind = "text"
                 /\ base["sku"].text # <<>>
                 /\ ACCESSORY_NAME(base["sku"].text) # NoneText
    IN  IF named
        THEN [f \in fields \cup {"name"} |->
                 IF f = "name" THEN Txt(ACCESSORY_NAME(base["sku"].text)) ELSE base[f]]
        ELSE base

\* The addresses of a grid in the order the sheet lists them (by row, then
\* by column), which is the order of cells.items().
AddrBefore(a, b) == a[2] < b[2] \/ (a[2] = b[2] /\ a[1] <= b[1])

RECURSIVE SortedAddrs(_)
SortedAddrs(S) ==
    IF S = {} THEN <<>>
    ELSE LET a == CHOOSE x \in S : \A y \in S : AddrBefore(x, y)
         IN  << a >> \o SortedAddrs(S \ {a})

Labelled(cells, a) == [key |-> guess_key(a, cells), value |-> cells[a].val]

\* collect_cells, lines 108-118: every cell outside rows start..end whose
\* text is not blank, with its label.
collect_cells(cells, start, end) ==
    [a \in { b \in DOMAIN cells :
               /\ ~(b[2] >= start /\ b[2] <= end)
               /\ cell_text(cells, b) # <<>> } |-> Labelled(cells, a)]

\* Variant of is_product_row that accepts any fill.
is_product_row_AnyFill(cells, row) ==
    \A c \in ColA..ColG : HasCell(cells, << c, row >>) /\ cells[<< c, row >>].color # NoColor

\* excel_to_json.py lines 92-93: columns A..G of the row all carry the
\* highlight fill (a missing cell has no fill).
is_product_row(cells, row) ==
    \A c \in ColA..ColG : HasCell(cells, << c, row >>) /\ cells[<< c, row >>].color = YELLOW

\* Lines 95-102: the product of a highlighted row (column F is not read).
style_product(cells, row) ==
    [sku   |-> cells[<< ColA, row >>].val,
     img   |-> cells[<< ColB, row >>].val,
     desc  |-> cells[<< ColC, row >>].val,
     qty   |-> cells[<< ColD, row >>].val,
     price |-> cells[<< ColE, row >>].val,
     pack  |-> cells[<< ColG, row >>].val]

\* Variant of yellow_cells that keeps the highlighted cells of every row.
yellow_cells_AllRows(cells, row) ==
    [a \in { b \in DOMAIN cells : cells[b].color = YELLOW } |-> Labelled(cells, a)]

\* Lines 105-113: the highlighted cells above row 7 or from the row that
\* ended the product loop on, with their labels.
yellow_cells(cells, row) ==
    [a \in { b \in DOMAIN cells :
               /\ cells[b].color = YELLOW
               /\ (b[2] < FirstStyleRow \/ b[2] >= row) } |-> Labelled(cells, a)]

\* Lines 115-119: the footer read at B69 and E69.
footer_of(cells) ==
    [k \in { f \in {"buyer", "supplier"} :
               HasCell(cells, << (IF f = "buyer" THEN ColB ELSE ColE), FooterRow >>) } |->
        cells[<< (IF k = "buyer" THEN ColB ELSE ColE), FooterRow >>].val]

\* PARENT_DATA as loaded at import (advanced_excel_to_json.py lines 22-23).
ExtractParents == << Family(SkuA, << SkuA, SkuA1, Sku07 >>) >>

\* p.get("chanpinbianhao") and CHILD_TO_PARENT.get(sku, sku) for an item of
\* the keyword-based detector: the parent's text for a listed child, the
\* SKU value itself otherwise, None without a SKU field.
item_parent(item) ==
    IF "sku" \notin DOMAIN item THEN NoVal
    ELSE IF item["sku"].kind = "text" /\ InChildToParent(ExtractParents, item["sku"].text)
         THEN Txt(CHILD_TO_PARENT(ExtractParents, item["sku"].text))
    ELSE item["sku"]

\* group_by_parent over the items, the groups kept in the order in which
\* their parent first appears (dict insertion order).
RECURSIVE group_items(_, _)
group_items(gs, ps) ==
    IF ps = <<>> THEN gs
    ELSE LET p == Head(ps)
             key == item_parent(p)
             at == { i \in 1..Len(gs) : gs[i].parent = key }
         IN  IF at = {}
             THEN group_items(Append(gs, [parent |-> key, items |-> << p >>]), Tail(ps))
             ELSE group_items([i \in 1..Len(gs) |->
                                  IF i \in at
                                  THEN [parent |-> key, items |-> Append(gs[i].items, p)]
                                  ELSE gs[i]], Tail(ps))

\* parse_order lines 137-146: one document per group, all with the same
\* cells.
grouped_docs(products, info_cells) ==
    LET gs == group_items(<<>>, products)
    IN  [i \in 1..Len(gs) |->
            [cells |-> info_cells, products |-> gs[i].items, footer |-> EmptyMap]]

\* ---- inputs ----

\* Most product rows of a table handed to the keyword-based detector.
MaxTableRows == 5

EmptyGrid == NoGrid

\* The rows of a keyword table: a full product row, a product row whose SKU
\* is made of digits, a row with an amount
\* only, a row with a quantity only, the two kinds of total row, an empty
\* row, a row with text in an unnamed column only, a remarks row and a
\* total row whose marker is followed by a colon.
RowCells(kind, r, i) ==
    IF kind = "full"
    THEN [a \in { << c, r >> : c \in ColA..ColE } |->
            IF a[1] = ColA THEN GridCell(<< SkuA1, SkuC, SkuA >>[(i % 3) + 1], NoColor)
            ELSE IF a[1] = ColB THEN GridCell(TextAt(a), NoColor)
            ELSE IF a[1] = ColC THEN GridCell(<< RowSymbol(i) >>, NoColor)
            ELSE IF a[1] = ColD THEN GridCell(<< "2", ".", "5" >>, NoColor)
            ELSE GridCell(<< "9" >>, NoColor)]
    ELSE IF kind = "digits"
    THEN [a \in { << c, r >> : c \in ColA..ColD } |->
            IF a[1] = ColA THEN GridCell(Sku07, NoColor)
            ELSE IF a[1] = ColB THEN GridCell(TextAt(a), NoColor)
            ELSE IF a[1] = ColC THEN GridCell(<< RowSymbol(i) >>, NoColor)
            ELSE GridCell(<< "2", ".", "5" >>, NoColor)]
    ELSE IF kind = "amount"
    THEN [a \in { << ColE, r >> } |-> GridCell(<< "9" >>, NoColor)]
    ELSE IF kind = "qtyonly"
    THEN [a \in { << ColA, r >>, << ColC, r >> } |->
            IF a[1] = ColA THEN GridCell(<< " " >>, NoColor)
            ELSE GridCell(<< " ", RowSymbol(i), " " >>, NoColor)]
    ELSE IF kind = "zongji"
    THEN [a \in { << ColA, r >>, << ColC, r >> } |->
            IF a[1] = ColA THEN GridCell(<< "zongji" >>, NoColor)
            ELSE GridCell(<< "4", "2" >>, NoColor)]
    ELSE IF kind = "total"
    THEN [a \in { << ColA, r >>, << ColC, r >> } |->
            IF a[1] = ColA THEN GridCell(<< "TOTAL", ":" >>, NoColor)
            ELSE GridCell(<< "4", "2" >>, NoColor)]
    ELSE IF kind = "stray"
    THEN [a \in { << ColF, r >> } |-> GridCell(TextAt(a), NoColor)]
    ELSE IF kind = "remark"
    THEN [a \in { << ColA, r >>, << ColB, r >> } |->
            IF a[1] = ColA THEN GridCell(<< "beizhu", ":" >>, NoColor)
            ELSE GridCell(TextAt(a), NoColor)]
    ELSE IF kind = "subtotal"
    THEN [a \in { << ColA, r >>, << ColC, r >> } |->
            IF a[1] = ColA THEN GridCell(<< "zongji", ":" >>, NoColor)
            ELSE GridCell(<< "4", "2" >>, NoColor)]
    ELSE NoGrid

HeaderRowCells(h) ==
    [a \in { << c, h >> : c \in ColA..ColF } |->
        IF a[1] = ColA THEN GridCell(<< "chanpinbianhao" >>, NoColor)
        ELSE IF a[1] = ColB THEN GridCell(<< "miaoshu" >>, NoColor)
        ELSE IF a[1] = ColC THEN GridCell(<< "shuliang", "/", "ge" >>, NoColor)
        ELSE IF a[1] = ColD THEN GridCell(<< " ", "danjia", " " >>, NoColor)
        ELSE IF a[1] = ColE THEN GridCell(<< "jine" >>, NoColor)
        ELSE GridCell(<< "z", "h", "u" >>, NoColor)]

\* The cells above a header in row 2: a label and its value.
InfoCells(h) ==
    [a \in { << c, q >> : c \in {ColA, ColB}, q \in 1..(h - 1) } |->
        GridCell(TextAt(a), NoColor)]

Merge2(f, g) == [a \in DOMAIN f \cup DOMAIN g |-> IF a \in DOMAIN f THEN f[a] ELSE g[a]]

RECURSIVE RowsFrom(_, _, _)
RowsFrom(kinds, r, i) ==
    IF kinds = <<>> THEN NoGrid
    ELSE Merge2(RowCells(Head(kinds), r, i), RowsFrom(Tail(kinds), r + 1, i + 1))

KwGrid(h, kinds) == Merge2(InfoCells(h), Merge2(HeaderRowCells(h), RowsFrom(kinds, h + 1, 1)))

Palettes == << << "full", "full", "full" >>,
               << "full", "amount", "qtyonly" >>,
               << "qtyonly", "full", "amount" >>,
               << "full", "digits", "full" >> >>

ProductKinds(p, n) == [i \in 1..n |-> Palettes[p][(i % 3) + 1]]

Terminators == {"zongji", "total", "empty", "stray", "remark", "subtotal"}

Trailers == { <<>>, << "full" >>, << "empty", "zongji" >> }

KeywordTables ==
    { KwGrid(h, ProductKinds(p, n) \o << t >> \o b) :
        h \in {1, 2}, p \in 1..Len(Palettes), n \in 0..MaxTableRows,
        t \in Terminators, b \in Trailers }

\* Grids in which no row has both a quantity word and a unit-price word.
HeadlessGrids ==
    { [a \in { << ColA, 1 >>, << ColC, 1 >> } |->
          IF a[1] = ColA THEN GridCell(<< "chanpinbianhao" >>, NoColor)
          ELSE GridCell(<< "shuliang" >>, NoColor)],
      [a \in { << ColC, 1 >>, << ColD, 2 >>, << ColA, 3 >> } |->
          IF a[1] = ColC THEN GridCell(<< "shuliang" >>, NoColor)
          ELSE IF a[1] = ColD THEN GridCell(<< "danjia" >>, NoColor)
          ELSE GridCell(SkuC, NoColor)],
      [a \in { << LastTableCol, 1 >>, << LastTableCol + 1, 1 >>, << ColA, 2 >> } |->
          IF a[1] = LastTableCol THEN GridCell(<< "shuliang" >>, NoColor)
          ELSE IF a[1] = LastTableCol + 1 THEN GridCell(<< "danjia" >>, NoColor)
          ELSE GridCell(<< " " >>, NoColor)],
      [a \in { << ColA, 1 >>, << ColB, 1 >> } |->
          IF a[1] = ColA THEN GridCell(TextAt(a), NoColor)
          ELSE GridCell(TextAt(a), YELLOW)] }

SimpleTable == KwGrid(1, << "full", "full", "zongji" >>)

KeywordBatches ==
    { << g >> : g \in KeywordTables \cup HeadlessGrids \cup {EmptyGrid} }
    \cup { << g1, g2 >> : g1 \in HeadlessGrids \cup {EmptyGrid, SimpleTable},
                          g2 \in {SimpleTable} }

\* A highlighted product row of a filled-in order sheet: the picture cell
\* holds no value, column F the cached result of its formula.
StyleRowCells(r) ==
    [a \in { << c, r >> : c \in ColA..ColG } |->
        IF a[1] = ColB THEN GridCell(<<>>, YELLOW)
        ELSE IF a[1] = ColD THEN GridCell(<< "3" >>, YELLOW)
        ELSE IF a[1] = ColE THEN GridCell(<< "2" >>, YELLOW)
        ELSE IF a[1] = ColF THEN [val |-> << "6" >>, color |-> YELLOW, formula |-> "mul"]
        ELSE GridCell(TextAt(a), YELLOW)]

RECURSIVE StyleRows(_, _)
StyleRows(r, n) == IF n = 0 THEN NoGrid ELSE Merge2(StyleRowCells(r), StyleRows(r + 1, n - 1))

\* The row right below the products: the total label, or a row whose first
\* three cells only are highlighted.
AfterRows(r, partial) ==
    IF partial
    THEN [a \in { << c, r >> : c \in ColA..ColC } |-> GridCell(TextAt(a), YELLOW)]
    ELSE [a \in { << ColA, r >> } |-> GridCell(<< "T" >>, NoColor)]

\* A labelled entry two rows below the products.
BelowCells(r, below) ==
    IF below
    THEN [a \in { << ColA, r >>, << ColB, r >> } |->
            IF a[1] = ColA THEN GridCell(TextAt(a), NoColor) ELSE GridCell(TextAt(a), YELLOW)]
    ELSE NoGrid

FooterCells(footer) ==
    IF footer
    THEN [a \in { << ColA, FooterRow >>, << ColB, FooterRow >> } |->
            IF a[1] = ColA THEN GridCell(<< "b", ":" >>, NoColor)
            ELSE GridCell(<< "u" >>, YELLOW)]
    ELSE NoGrid

HeadKinds ==
    { k \in [{ << ColA, 3 >>, << ColB, 2 >>, << ColB, 3 >>, << ColB, 4 >>, << ColA, 4 >> }
               -> {"absent", "label", "entry", "hollow"}] :
        /\ k[<< ColA, 3 >>] \in {"absent", "label", "entry"}
        /\ k[<< ColB, 2 >>] \in {"absent", "label"}
        /\ k[<< ColB, 3 >>] \in {"entry", "hollow", "label"}
        /\ k[<< ColB, 4 >>] \in {"absent", "entry"}
        /\ k[<< ColA, 4 >>] \in {"absent", "label"} }

StyleGrid(k, n, partial, below, footer) ==
    Merge2(GridOf(k),
      Merge2(StyleRows(FirstStyleRow, n),
        Merge2(AfterRows(FirstStyleRow + n, partial),
          Merge2(BelowCells(FirstStyleRow + n + 2, below), FooterCells(footer)))))

StyleGrids ==
    { StyleGrid(k, n, partial, below, footer) :
        k \in HeadKinds, n \in 0..MaxProducts,
        partial \in BOOLEAN, below \in BOOLEAN, footer \in BOOLEAN }

SimpleSheet ==
    StyleGrid([a \in { << ColA, 3 >>, << ColB, 2 >>, << ColB, 3 >>, << ColB, 4 >>, << ColA, 4 >> } |->
                  IF a = << ColA, 3 >> THEN "label"
                  ELSE IF a = << ColB, 3 >> THEN "entry" ELSE "absent"],
              1, FALSE, FALSE, TRUE)

\* A row that stops the product loop: the total label, a row whose first
\* three cells only are highlighted, a highlighted row without its quantity
\* cell, and a highlighted row whose quantity cell has another fill.
StopRowCells(r, stop) ==
    IF stop = "hole"
    THEN [a \in { << c, r >> : c \in (ColA..ColG) \ {ColD} } |-> GridCell(TextAt(a), YELLOW)]
    ELSE IF stop = "other"
    THEN [a \in { << c, r >> : c \in ColA..ColG } |->
            GridCell(TextAt(a), IF a[1] = ColD THEN OtherColor ELSE YELLOW)]
    ELSE AfterRows(r, stop = "partial")

StopKinds == {"label", "partial", "hole", "other"}

\* Sheets where a fully highlighted row follows the row that stops the loop.
ResumedGrids ==
    { Merge2(StyleRows(FirstStyleRow, n),
        Merge2(StopRowCells(FirstStyleRow + n, stop),
               StyleRows(FirstStyleRow + n + 1, 1))) :
        n \in 0..(MaxProducts - 2), stop \in StopKinds }

StyleBatches ==
    { << g >> : g \in StyleGrids \cup ResumedGrids \cup {EmptyGrid} }
    \cup { << g1, g2 >> : g1 \in {EmptyGrid, SimpleSheet}, g2 \in {SimpleSheet} }

NoDocs == <<>>

InitExtractVars ==
    /\ x_impl \in {"style", "keyword"}
    /\ files \in (IF x_impl = "style" THEN StyleBatches ELSE KeywordBatches)
    /\ x_file = 1
    /\ grid = EmptyGrid
    /\ x_row = 0
    /\ x_header = 0
    /\ x_products = <<>>
    /\ x_cells = NoGrid
    /\ x_docs = NoDocs
    /\ x_written = <<>>
    /\ x_pc = "read"

IdleExtractVars ==
    /\ x_impl = "idle"
    /\ files = <<>>
    /\ x_file = 0
    /\ grid = EmptyGrid
    /\ x_row = 0
    /\ x_header = 0
    /\ x_products = <<>>
    /\ x_cells = NoGrid
    /\ x_docs = NoDocs
    /\ x_written = <<>>
    /\ x_pc = "idle"

\* ---- actions ----

\* cells = read_workbook(path) for the next file of the batch
\* (advanced_excel_to_json.py lines 131 and 152, excel_to_json.py line 86).
ReadGrid ==
    /\ x_pc = "read"
    /\ grid' = files[x_file]
    /\ x_products' = <<>>
    /\ x_cells' = NoGrid
    /\ x_docs' = NoDocs
    /\ x_header' = 0
    /\ x_row' = IF x_impl = "style" THEN FirstStyleRow ELSE 0
    /\ x_pc' = IF x_impl = "style" THEN "rows" ELSE "detect"
    /\ UNCHANGED <<x_impl, files, x_file, x_written>>

\* detect_header on a grid without cells: max() of an empty sequence raises
\* ValueError (line 67), which neither parse_order nor main catches.
DetectHeaderRaise ==
    /\ x_pc = "detect"
    /\ DOMAIN grid = {}
    /\ x_pc' = "error"
    /\ UNCHANGED <<x_impl, files, x_file, grid, x_row, x_header, x_products, x_cells,
                   x_docs, x_written>>

\* Lines 132 and 135: a header row is found; parse_table starts below it.
DetectHeader ==
    /\ x_pc = "detect"
    /\ DOMAIN grid # {}
    /\ detect_header(grid) # -1
    /\ x_header' = detect_header(grid)
    /\ x_row' = detect_header(grid) + 1
    /\ x_pc' = "table"
    /\ UNCHANGED <<x_impl, files, x_file, grid, x_products, x_cells, x_docs, x_written>>

\* Lines 133-134: no header row; one document without products is returned.
ReturnHeadless ==
    /\ x_pc = "detect"
    /\ DOMAIN grid # {}
    /\ detect_header(grid) = -1
    /\ x_header' = -1
    /\ x_cells' = collect_cells(grid, 0, 0)
    /\ x_docs' = << [cells |-> collect_cells(grid, 0, 0), products |-> <<>>,
                     footer |-> EmptyMap] >>
    /\ x_pc' = "write"
    /\ UNCHANGED <<x_impl, files, x_file, grid, x_row, x_products, x_written>>

\* parse_table lines 85-104: a row that does not end the table gives an
\* item.
TableRow ==
    /\ x_pc = "table"
    /\ ~table_ends(grid, x_row, header_of(grid, x_header))
    /\ x_products' = Append(x_products, item_of(grid, x_row, header_of(grid, x_header)))
    /\ x_row' = x_row + 1
    /\ UNCHANGED <<x_impl, files, x_file, grid, x_header, x_cells, x_docs, x_written, x_pc>>

\* Lines 87-93 and 105: the table ends at this row; end_row = row - 1.
TableEnd ==
    /\ x_pc = "table"
    /\ table_ends(grid, x_row, header_of(grid, x_header))
    /\ x_pc' = "collect"
    /\ UNCHANGED <<x_impl, files, x_file, grid, x_row, x_header, x_products, x_cells,
                   x_docs, x_written>>

\* Line 136: info_cells = collect_cells(cells, header_row, end_row).
CollectCells ==
    /\ x_pc = "collect"
    /\ x_cells' = collect_cells(grid, x_header, x_row - 1)
    /\ x_pc' = "group"
    /\ UNCHANGED <<x_impl, files, x_file, grid, x_row, x_header, x_products, x_docs, x_written>>

\* Lines 137-146: the documents, one per parent.
GroupOutputs ==
    /\ x_pc = "group"
    /\ x_docs' = grouped_docs(x_products, x_cells)
    /\ x_pc' = "write"
    /\ UNCHANGED <<x_impl, files, x_file, grid, x_row, x_header, x_products, x_cells, x_written>>

\* excel_to_json.py lines 91-103: a fully highlighted row is a product.
StyleRow ==
    /\ x_pc = "rows"
    /\ is_product_row(grid, x_row)
    /\ x_products' = Append(x_products, style_product(grid, x_row))
    /\ x_row' = x_row + 1
    /\ UNCHANGED <<x_impl, files, x_file, grid, x_header, x_cells, x_docs, x_written, x_pc>>

\* Lines 93-94: the first row that is not fully highlighted ends the loop.
StyleEnd ==
    /\ x_pc = "rows"
    /\ ~is_product_row(grid, x_row)
    /\ x_pc' = "yellow"
    /\ UNCHANGED <<x_impl, files, x_file, grid, x_row, x_header, x_products, x_cells,
                   x_docs, x_written>>

\* Lines 105-113.
CollectYellow ==
    /\ x_pc = "yellow"
    /\ x_cells' = yellow_cells(grid, x_row)
    /\ x_pc' = "footer"
    /\ UNCHANGED <<x_impl, files, x_file, grid, x_row, x_header, x_products, x_docs, x_written>>

\* Lines 115-126: the footer is read and the document returned.
ReturnDocument ==
    /\ x_pc = "footer"
    /\ x_docs' = << [cells |-> x_cells, products |-> x_products,
                     footer |-> footer_of(grid)] >>
    /\ x_pc' = "write"
    /\ UNCHANGED <<x_impl, files, x_file, grid, x_row, x_header, x_products, x_cells, x_written>>

\* The batch driver writes the documents of the file and goes on to the
\* next file (advanced_excel_to_json.py lines 152-160,
\* order_generation/convert_all_excel.py lines 19-26).
WriteOutputs ==
    /\ x_pc = "write"
    /\ x_written' = x_written \o [i \in 1..Len(x_docs) |-> [file |-> x_file, doc |-> x_docs[i]]]
    /\ IF x_file < Len(files)
       THEN x_file' = x_file + 1 /\ x_pc' = "read"
       ELSE x_file' = x_file /\ x_pc' = "done"
    /\ UNCHANGED <<x_impl, files, grid, x_row, x_header, x_products, x_cells, x_docs>>

NextExtract ==
    \/ ReadGrid \/ DetectHeaderRaise \/ DetectHeader \/ ReturnHeadless
    \/ TableRow \/ TableEnd \/ CollectCells \/ GroupOutputs
    \/ StyleRow \/ StyleEnd \/ CollectYellow \/ ReturnDocument
    \/ WriteOutputs

(***************************************************************************)
(*                         CELL-GRID READER                                *)
(* order_generation/excel_to_json.py, read_workbook.                       *)
(*                                                                         *)
(* A package holds up to three parts.  The style table holds a list of     *)
(* fills (<fills>) and a list of cell formats (<cellXfs>), each of which   *)
(* may be absent; a fill is a colour or lacks its pattern, its foreground  *)
(* element or the colour attribute.  A cell element has an address, a type *)
(* attribute, an optional value, an optional formula and an optional style *)
(* index (-1: no attribute).                                               *)
(***************************************************************************)

\* Most cell elements of a sheet part.
MaxCells == 2

NoPart == [present |-> FALSE]

FillKinds == {"nopattern", "nofg", "norgb", YELLOW, OtherColor}

\* Lines 56-62: the colour of a fill, None unless pattern, foreground
\* element and rgb attribute are all there.
fill_color(f) == IF f \in {"nopattern", "nofg", "norgb"} THEN NoColor ELSE f

NoStyle == -1

CellElement(r, t, hasV, v, formula, s) ==
    [r |-> r, t |-> t, hasV |-> hasV, v |-> v, formula |-> formula, s |-> s]

\* The cell elements written at an address: a shared string, a number
\* without style, a styled cell without value, a second shared string, a
\* formula with its cached result.
PaletteCell(j, a) ==
    IF j = 1 THEN CellElement(a, "s", TRUE, << "0" >>, "none", 1)
    ELSE IF j = 2 THEN CellElement(a, "n", TRUE, << "7" >>, "none", NoStyle)
    ELSE IF j = 3 THEN CellElement(a, "none", FALSE, <<>>, "none", 0)
    ELSE IF j = 4 THEN CellElement(a, "s", TRUE, << "1" >>, "none", 2)
    ELSE CellElement(a, "n", TRUE, << "6" >>, "mul", 1)

\* The sheet parts: up to MaxCells cell elements in row 1.
SheetParts ==
    UNION { { [present |-> TRUE, cells |-> [i \in 1..k |-> PaletteCell(f[i], << i, 1 >>)]] :
                f \in [1..k -> 1..5] } : k \in 0..MaxCells }

SharedParts ==
    { [present |-> TRUE, items |-> << << "s", "0" >> >>],
      [present |-> TRUE, items |-> << << "s", "0" >>, << "s", "1" >> >>] }

StyleParts ==
    { [present |-> TRUE, hasFills |-> hf, fills |-> fl, hasXfs |-> hx, xfs |-> xf] :
        hf \in BOOLEAN, hx \in BOOLEAN,
        fl \in { << "nopattern", YELLOW >>, << "norgb", YELLOW, "nofg" >>, <<>> },
        xf \in { << 0, 1 >>, << 0, 1, 2 >>, <<>> } }

Packages ==
    { [shared |-> sh, styles |-> st, sheet |-> ws1] :
        sh \in SharedParts \cup {NoPart},
        st \in { s \in StyleParts : (s.hasFills \/ s.fills = <<>>) /\ (s.hasXfs \/ s.xfs = <<>>) }
              \cup {NoPart},
        ws1 \in SheetParts \cup {NoPart} }

NoCells == [a \in {} |-> BlankCell]

InitReaderVars ==
    /\ rd_pkg \in Packages
    /\ rd_shared = <<>>
    /\ rd_fills = <<>>
    /\ rd_xfs = <<>>
    /\ rd_cells = NoCells
    /\ rd_idx = 0
    /\ rd_error = "none"
    /\ rd_pc = "shared"

IdleReaderVars ==
    /\ rd_pkg = [shared |-> NoPart, styles |-> NoPart, sheet |-> NoPart]
    /\ rd_shared = <<>>
    /\ rd_fills = <<>>
    /\ rd_xfs = <<>>
    /\ rd_cells = NoCells
    /\ rd_idx = 0
    /\ rd_error = "none"
    /\ rd_pc = "idle"

\* Lines 45-50: the shared strings, when the part is there.
ReadSharedStrings ==
    /\ rd_pc = "shared"
    /\ rd_shared' = IF rd_pkg.shared.present THEN rd_pkg.shared.items ELSE <<>>
    /\ rd_pc' = "styles"
    /\ UNCHANGED <<rd_pkg, rd_fills, rd_xfs, rd_cells, rd_idx, rd_error>>

\* Lines 52-64 on a style table with its fill list and its format list.
ReadStyles ==
    /\ rd_pc = "styles"
    /\ rd_pkg.styles.present
    /\ rd_pkg.styles.hasFills
    /\ rd_pkg.styles.hasXfs
    /\ rd_fills' = [i \in 1..Len(rd_pkg.styles.fills) |-> fill_color(rd_pkg.styles.fills[i])]
    /\ rd_xfs' = rd_pkg.styles.xfs
    /\ rd_pc' = "sheet"
    /\ UNCHANGED <<rd_pkg, rd_shared, rd_cells, rd_idx, rd_error>>

\* Line 52: z.read of a missing part raises KeyError; lines 53-55 and
\* 63-64: find() gives None for an absent <fills> or <cellXfs> and
\* None.findall raises AttributeError.
ReadStylesRaise ==
    /\ rd_pc = "styles"
    /\ ~(rd_pkg.styles.present /\ rd_pkg.styles.hasFills /\ rd_pkg.styles.hasXfs)
    /\ rd_error' = IF ~rd_pkg.styles.present THEN "KeyError" ELSE "AttributeError"
    /\ rd_pc' = "raised"
    /\ UNCHANGED <<rd_pkg, rd_shared, rd_fills, rd_xfs, rd_cells, rd_idx>>

\* Line 66 with the sheet part there.
OpenSheet ==
    /\ rd_pc = "sheet"
    /\ rd_pkg.sheet.present
    /\ rd_idx' = 1
    /\ rd_pc' = "cells"
    /\ UNCHANGED <<rd_pkg, rd_shared, rd_fills, rd_xfs, rd_cells, rd_error>>

\* Line 66 without it: KeyError.
OpenSheetRaise ==
    /\ rd_pc = "sheet"
    /\ ~rd_pkg.sheet.present
    /\ rd_error' = "KeyError"
    /\ rd_pc' = "raised"
    /\ UNCHANGED <<rd_pkg, rd_shared, rd_fills, rd_xfs, rd_cells, rd_idx>>

\* Line 74 and line 80: the list lookups of a cell element that are out
\* of range (indices count from 0).
cell_lookup_fails(c, shared, fills, xfs) ==
    \/ c.hasV /\ c.t = "s" /\ NatOf(c.v) >= Len(shared)
    \/ c.s # NoStyle /\ c.s >= Len(xfs)
    \/ c.s # NoStyle /\ c.s < Len(xfs) /\ xfs[c.s + 1] >= Len(fills)

\* Lines 69-81: the (value, color, formula) of a cell element.
cell_tuple(c, shared, fills, xfs) ==
    [val     |-> IF ~c.hasV THEN <<>>
                 ELSE IF c.t = "s" THEN shared[NatOf(c.v) + 1] ELSE c.v,
     color   |-> IF c.s = NoStyle THEN NoColor ELSE fills[xfs[c.s + 1] + 1],
     formula |-> c.formula]

ReadCell ==
    /\ rd_pc = "cells"
    /\ rd_idx <= Len(rd_pkg.sheet.cells)
    /\ LET c == rd_pkg.sheet.cells[rd_idx]
       IN  /\ ~cell_lookup_fails(c, rd_shared, rd_fills, rd_xfs)
           /\ rd_cells' = [a \in DOMAIN rd_cells \cup {c.r} |->
                              IF a = c.r THEN cell_tuple(c, rd_shared, rd_fills, rd_xfs)
                              ELSE rd_cells[a]]
    /\ rd_idx' = rd_idx + 1
    /\ UNCHANGED <<rd_pkg, rd_shared, rd_fills, rd_xfs, rd_error, rd_pc>>

ReadCellRaise ==
    /\ rd_pc = "cells"
    /\ rd_idx <= Len(rd_pkg.sheet.cells)
    /\ cell_lookup_fails(rd_pkg.sheet.cells[rd_idx], rd_shared, rd_fills, rd_xfs)
    /\ rd_error' = "IndexError"
    /\ rd_pc' = "raised"
    /\ UNCHANGED <<rd_pkg, rd_shared, rd_fills, rd_xfs, rd_cells, rd_idx>>

\* Line 82.
ReturnCells ==
    /\ rd_pc = "cells"
    /\ rd_idx > Len(rd_pkg.sheet.cells)
    /\ rd_pc' = "returned"
    /\ UNCHANGED <<rd_pkg, rd_shared, rd_fills, rd_xfs, rd_cells, rd_idx, rd_error>>

NextReader ==
    \/ ReadSharedStrings \/ ReadStyles \/ ReadStylesRaise
    \/ OpenSheet \/ OpenSheetRaise
    \/ ReadCell \/ ReadCellRaise \/ ReturnCells

(***************************************************************************)
(*                     FACTORY DOCUMENT GENERATION                         *)
(* order_generation/direct_sku_to_json.py, generate_factory_jsons.         *)
(***************************************************************************)

\* The dictionary all_items as the list of its items, in insertion order:
\* result[sku] = result.get(sku, 0) + n.
items_add(items, sku, n) ==
    IF \E i \in 1..Len(items) : items[i].sku = sku
    THEN [i \in 1..Len(items) |->
             IF items[i].sku = sku THEN [sku |-> sku, qty |-> items[i].qty + n]
             ELSE items[i]]
    ELSE Append(items, [sku |-> sku, qty |-> n])

\* mapping.get(sku, []) on a given mapping.
accessories_of(mp, sku) == IF sku \in DOMAIN mp THEN mp[sku] ELSE <<>>

\* _compute_all_items lines 59-68 for the accessories of one request (no
\* ratio_main of 0 among them).
RECURSIVE add_accessories(_, _, _)
add_accessories(items, qty, accs) ==
    IF accs = <<>> THEN items
    ELSE LET acc   == Head(accs)
             ratio == ParseRatio(acc)
             q     == acc_qty_of(qty, ratio.accessory, ratio.main)
         IN  add_accessories(IF acc.sku # "" THEN items_add(items, acc.sku, q) ELSE items,
                             qty, Tail(accs))

\* _compute_all_items lines 56-69.
RECURSIVE compute_all_items(_, _, _)
compute_all_items(items, reqs, mp) ==
    IF reqs = <<>> THEN items
    ELSE LET r == Head(reqs)
         IN  compute_all_items(
                 add_accessories(items_add(items, r.sku, r.qty), r.qty,
                                 accessories_of(mp, r.sku)),
                 Tail(reqs), mp)

\* Lines 117-118: every product of the template gets the quantity.
set_quantity(doc, qty) ==
    [doc EXCEPT !.products = [i \in 1..Len(doc.products) |->
                                 [doc.products[i] EXCEPT !.qty = qty]]]

\* Line 119: data.get("cells", {}).get("B3", {}).get("value", "factory").
factory_of(doc) == IF "B3" \in DOMAIN doc.cells THEN doc.cells["B3"].value ELSE "factory"

\* Variant of temp_add that opens a new group for every template.
temp_add_NewGroup(temp, factory, doc) ==
    Append(temp, [factory |-> factory, docs |-> << doc >>])

\* Line 123: temp_files.setdefault(factory, []).append(path).
temp_add(temp, factory, doc) ==
    IF \E i \in 1..Len(temp) : temp[i].factory = factory
    THEN [i \in 1..Len(temp) |->
             IF temp[i].factory = factory
             THEN [factory |-> factory, docs |-> Append(temp[i].docs, doc)]
             ELSE temp[i]]
    ELSE Append(temp, [factory |-> factory, docs |-> << doc >>])

\* ---- inputs ----

GenQuantities == 1..MaxQty

\* The template of a SKU: one product line, the supplier in B3 (or no B3).
SkuTemplate(sku, supplier) ==
    [cells    |-> IF supplier = "nob3" THEN EmptyMap
                  ELSE [a \in {"B3"} |-> CellOf(a, supplier)],
     products |-> << Product(sku, 0) >>,
     footer   |-> EmptyMap]

TemplateDirs ==
    { [s \in { t \in Skus : f[t] # "none" } |-> SkuTemplate(s, f[s])] :
        f \in [Skus -> {"none", "x", "y", "nob3"}] }

GenMappings ==
    { EmptyMap,
      [s \in {"P1"} |-> << Acc("X", IntTerm(2), IntTerm(1)) >>],
      [s \in {"P1", "P2"} |-> IF s = "P1" THEN << Acc("X", IntTerm(1), IntTerm(1)) >>
                              ELSE << Acc("X", IntTerm(1), IntTerm(2)),
                                      Acc("P1", MissingTerm, IntTerm(1)) >>] }

GenRequests == { ReqItems(f) : f \in UNION { [S -> GenQuantities] : S \in SUBSET Skus } }

InitGenVars ==
    /\ gn_requests \in GenRequests
    /\ gn_mapping \in GenMappings
    /\ gn_templates \in TemplateDirs
    /\ gn_items = <<>>
    /\ gn_idx = 0
    /\ gn_temp = <<>>
    /\ gn_out = <<>>
    /\ gn_excel = <<>>
    /\ gn_stdout = <<>>
    /\ gn_stderr = <<>>
    /\ gn_pc = "start"

IdleGenVars ==
    /\ gn_requests = <<>>
    /\ gn_mapping = EmptyMap
    /\ gn_templates = EmptyMap
    /\ gn_items = <<>>
    /\ gn_idx = 0
    /\ gn_temp = <<>>
    /\ gn_out = <<>>
    /\ gn_excel = <<>>
    /\ gn_stdout = <<>>
    /\ gn_stderr = <<>>
    /\ gn_pc = "idle"

\* ---- actions ----

\* Lines 106-108.
ComputeItems ==
    /\ gn_pc = "start"
    /\ gn_items' = compute_all_items(<<>>, gn_requests, gn_mapping)
    /\ gn_idx' = 1
    /\ gn_pc' = "templates"
    /\ UNCHANGED <<gn_requests, gn_mapping, gn_templates, gn_temp, gn_out, gn_excel,
                   gn_stdout, gn_stderr>>

\* Variant of WarnMissingTemplate that goes on without a word.
WarnMissingTemplate_Silent ==
    /\ gn_pc = "templates"
    /\ gn_idx <= Len(gn_items)
    /\ gn_items[gn_idx].sku \notin DOMAIN gn_templates
    /\ gn_idx' = gn_idx + 1
    /\ UNCHANGED <<gn_requests, gn_mapping, gn_templates, gn_items, gn_temp, gn_out,
                   gn_excel, gn_stdout, gn_stderr, gn_pc>>

\* Lines 111-114: no template file for the SKU; a warning is printed and
\* the loop continues.
WarnMissingTemplate ==
    /\ gn_pc = "templates"
    /\ gn_idx <= Len(gn_items)
    /\ gn_items[gn_idx].sku \notin DOMAIN gn_templates
    /\ gn_stdout' = Append(gn_stdout, [warning |-> "template not found",
                                       sku |-> gn_items[gn_idx].sku])
    /\ gn_idx' = gn_idx + 1
    /\ UNCHANGED <<gn_requests, gn_mapping, gn_templates, gn_items, gn_temp, gn_out,
                   gn_excel, gn_stderr, gn_pc>>

\* Lines 115-123: the template is loaded, gets the quantity and is filed
\* under its factory.
LoadTemplate ==
    /\ gn_pc = "templates"
    /\ gn_idx <= Len(gn_items)
    /\ gn_items[gn_idx].sku \in DOMAIN gn_templates
    /\ LET doc == set_quantity(gn_templates[gn_items[gn_idx].sku], gn_items[gn_idx].qty)
       IN  gn_temp' = temp_add(gn_temp, factory_of(doc), doc)
    /\ gn_idx' = gn_idx + 1
    /\ UNCHANGED <<gn_requests, gn_mapping, gn_templates, gn_items, gn_out, gn_excel,
                   gn_stdout, gn_stderr, gn_pc>>

\* The loop of lines 110-123 is over.
EndTemplates ==
    /\ gn_pc = "templates"
    /\ gn_idx > Len(gn_items)
    /\ gn_idx' = 1
    /\ gn_pc' = "factories"
    /\ UNCHANGED <<gn_requests, gn_mapping, gn_templates, gn_items, gn_temp, gn_out,
                   gn_excel, gn_stdout, gn_stderr>>

\* Lines 130-149: the documents of one factory are merged and written; the
\* conversion to a workbook runs in a subprocess, whose failure is caught
\* and reported.
WriteFactory ==
    /\ gn_pc = "factories"
    /\ gn_idx <= Len(gn_temp)
    /\ LET m == merge_json_templates(gn_temp[gn_idx].docs)
       IN  /\ gn_out' = Append(gn_out, [counter |-> gn_idx, doc |-> m.doc])
           /\ gn_stderr' = gn_stderr \o m.msgs
    /\ \E converted \in BOOLEAN :
          IF converted
          THEN gn_excel' = Append(gn_excel, gn_idx) /\ gn_stdout' = gn_stdout
          ELSE /\ gn_excel' = gn_excel
               /\ gn_stdout' = Append(gn_stdout, [warning |-> "failed to convert",
                                                  sku |-> ""])
    /\ gn_idx' = gn_idx + 1
    /\ UNCHANGED <<gn_requests, gn_mapping, gn_templates, gn_items, gn_temp, gn_pc>>

\* Line 157.
ReturnPaths ==
    /\ gn_pc = "factories"
    /\ gn_idx > Len(gn_temp)
    /\ gn_pc' = "done"
    /\ UNCHANGED <<gn_requests, gn_mapping, gn_templates, gn_items, gn_idx, gn_temp,
                   gn_out, gn_excel, gn_stdout, gn_stderr>>

NextGen ==
    \/ ComputeItems \/ WarnMissingTemplate \/ LoadTemplate \/ EndTemplates
    \/ WriteFactory \/ ReturnPaths

(***************************************************************************)
(*                            ROUND TRIP                                   *)
(* A filled-in order sheet is extracted by excel_to_json.parse_order, the  *)
(* document is stored as JSON and written into the blank template of the   *)
(* sheet by json_PO_excel.create_order_workbook.                           *)
(***************************************************************************)

\* The rows a writer gives the products: as many as there are products,
\* three (the placeholder rows) at least.
SheetRows(n) == Max(n, PLACEHOLDER_ROWS)

\* A placeholder row the writer filled from {}: highlighted, without values.
BlankRowCells(r) ==
    [a \in { << c, r >> : c \in ColA..ColG } |->
        IF a[1] = ColF THEN [val |-> << "0" >>, color |-> YELLOW, formula |-> "mul"]
        ELSE GridCell(<<>>, YELLOW)]

RECURSIVE BlankRows(_, _)
BlankRows(r, n) == IF n <= 0 THEN NoGrid ELSE Merge2(BlankRowCells(r), BlankRows(r + 1, n - 1))

\* The footer row of a sheet: the two labels and, when signed, the two
\* highlighted names.
SheetFooter(r, signed) ==
    [a \in { << c, r >> : c \in {ColA, ColB, ColD, ColE} } |->
        IF a[1] = ColA THEN GridCell(<< "b", ":" >>, NoColor)
        ELSE IF a[1] = ColD THEN GridCell(<< "s", ":" >>, NoColor)
        ELSE IF ~signed THEN GridCell(<<>>, NoColor)
        ELSE IF a[1] = ColB THEN GridCell(<< "u" >>, YELLOW)
        ELSE GridCell(<< "f" >>, YELLOW)]

\* A sheet as the writer leaves it: the header cells, n product rows (and
\* blank placeholder rows up to three), the total label below them and the
\* footer row, moved down by the rows inserted.
FilledSheet(k, n, signed) ==
    Merge2(GridOf(k),
      Merge2(StyleRows(START_ROW, n),
        Merge2(BlankRows(START_ROW + n, PLACEHOLDER_ROWS - n),
          Merge2([a \in { << ColA, START_ROW + SheetRows(n) >> } |->
                     GridCell(<< "T" >>, NoColor)],
                 SheetFooter(BUYER_ROW + SheetRows(n) - PLACEHOLDER_ROWS, signed)))))

RoundTripKinds ==
    { k \in [{ << ColA, 3 >>, << ColB, 2 >>, << ColB, 3 >> } -> {"absent", "label", "entry", "hollow"}] :
        /\ k[<< ColA, 3 >>] \in {"absent", "label"}
        /\ k[<< ColB, 2 >>] \in {"absent", "label"}
        /\ k[<< ColB, 3 >>] \in {"entry", "hollow"} }

FilledSheets ==
    { FilledSheet(k, n, signed) :
        k \in RoundTripKinds, n \in 0..MaxProducts, signed \in BOOLEAN }

\* The blank template of a sheet: its labels above the product rows where
\* the sheet has them, its highlighted cells empty, the placeholder rows,
\* the total label and the footer labels at their places.
BlankTemplate(sheet) ==
    LET head == { a \in DOMAIN sheet : a[2] < START_ROW }
    IN  [cells  |-> [a \in DOMAIN TemplateBase \cup head |->
                       IF a \in head
                       THEN (IF sheet[a].color = YELLOW THEN Cell(NoVal, "entry")
                             ELSE Cell(Txt(sheet[a].val), "header"))
                       ELSE TemplateBase[a]],
         height |-> [r \in START_ROW..(START_ROW + PLACEHOLDER_ROWS - 1) |-> "tall"],
         images |-> {}]

\* The extracted document as json_PO_excel reads it back from the JSON
\* file: the cells in the order of the sheet, every value a string, no
\* name field in the products and an empty picture reference.
as_order_data(doc) ==
    LET addrs == SortedAddrs(DOMAIN doc.cells)
    IN  [cells    |-> [i \in 1..Len(addrs) |->
                          Entry(addrs[i], doc.cells[addrs[i]].key, doc.cells[addrs[i]].value)],
         products |-> [i \in 1..Len(doc.products) |->
                          [sku   |-> doc.products[i].sku,
                           img   |-> "none",
                           name  |-> <<>>,
                           desc  |-> doc.products[i].desc,
                           qty   |-> Txt(doc.products[i].qty),
                           price |-> Txt(doc.products[i].price),
                           pack  |-> doc.products[i].pack]],
         footer   |-> doc.footer]

InitRoundTripVars ==
    /\ x_impl = "style"
    /\ files \in { << s >> : s \in FilledSheets }
    /\ x_file = 1
    /\ grid = EmptyGrid
    /\ x_row = 0
    /\ x_header = 0
    /\ x_products = <<>>
    /\ x_cells = NoGrid
    /\ x_docs = NoDocs
    /\ x_written = <<>>
    /\ x_pc = "read"
    /\ writer = "json_PO_excel"
    /\ template = BlankTemplate(files[1])
    /\ data = EmptyDoc
    /\ ws = template
    /\ mismatches = <<>>
    /\ offset = 0
    /\ saved = FALSE
    /\ w_pc = "waiting"

\* excel_to_json.py main writes the document; json_PO_excel.py main
\* (lines 137-139) loads it and calls create_order_workbook.
HandOver ==
    /\ x_pc = "done"
    /\ w_pc = "waiting"
    /\ data' = as_order_data(x_written[1].doc)
    /\ w_pc' = "verify"
    /\ UNCHANGED <<writer, template, ws, mismatches, offset, saved>>
    /\ UNCHANGED extractVars

NextRoundTrip ==
    \/ (ReadGrid \/ StyleRow \/ StyleEnd \/ CollectYellow \/ ReturnDocument \/ WriteOutputs)
          /\ UNCHANGED writerVars
    \/ HandOver
    \/ (VerifyCells \/ VerifyCellsRaise \/ FillCells \/ InsertProducts
          \/ WriteFooter \/ SaveWorkbook)
          /\ UNCHANGED extractVars

(***************************************************************************)
(*                        NUMERIC COERCION                                 *)
(*  advanced_excel_to_json.py convert_number, called on the text of a      *)
(*  table cell (parse_table lines 94-99).                                  *)
(***************************************************************************)

MaxTextLen == 3

\* The symbols a cell text is made of: digits, a sign, the decimal point,
\* the exponent letter, a blank and another letter.
TextSymbols == {"0", "7", "-", ".", "e", " ", "a"}

CellTexts == UNION { [1..n -> TextSymbols] : n \in 0..MaxTextLen }

InitCoerceVars ==
    /\ cv_val \in CellTexts
    /\ cv_result = NoVal
    /\ cv_pc = "call"

IdleCoerceVars ==
    /\ cv_val = <<>>
    /\ cv_result = NoVal
    /\ cv_pc = "idle"

\* Line 99: item[key] = convert_number(val).
ConvertNumber ==
    /\ cv_pc = "call"
    /\ cv_result' = convert_number(cv_val)
    /\ cv_pc' = IF cv_result'.kind = "raise" THEN "raised" ELSE "returned"
    /\ UNCHANGED cv_val

NextCoerce == ConvertNumber

(***************************************************************************)
(*                        TEMPLATE ORDER WRITER                            *)
(*  generate_order_template.py: the writer that replaces the placeholder   *)
(*  rows by one row per product.                                           *)
(***************************************************************************)

\* ws.delete_rows(idx, amount) (openpyxl): the rows idx..idx+amount-1 go
\* and every cell below moves up by amount, value and formatting together.
delete_rows(sheet, at, amount) ==
    LET kept == { a \in DOMAIN sheet.cells : a[2] < at \/ a[2] >= at + amount }
        moved(a) == IF a[2] >= at + amount THEN << a[1], a[2] - amount >> ELSE a
    IN  [sheet EXCEPT !.cells =
            [b \in { moved(a) : a \in kept } |->
                IF b[2] >= at THEN sheet.cells[<< b[1], b[2] + amount >>]
                ELSE sheet.cells[b]]]

\* generate_order_template.py lines 32-45: the cells of product row r;
\* column B is written only when the image does not load, the description
\* is written as it is.
gt_write_row(sheet, r, item) ==
    LET s1 == SetValue(sheet, << ColA, r >>, Txt(item.sku))
        s3 == IF item.img = "ok" THEN [s1 EXCEPT !.images = @ \cup {<< ColB, r >>}]
              ELSE IF item.img = "bad" THEN SetValue(s1, << ColB, r >>, Txt(ImagePath(item)))
              ELSE s1
        s4 == SetValue(s3, << ColC, r >>, Txt(item.desc))
        s5 == SetValue(s4, << ColD, r >>, item.qty)
        s6 == SetValue(s5, << ColE, r >>, item.price)
        s7 == SetValue(s6, << ColF, r >>, MulF(r, r))
    IN  SetValue(s7, << ColG, r >>, Txt(item.pack))

\* The loop `for idx, item in enumerate(products)`, from index i.
RECURSIVE gt_write_rows(_, _, _)
gt_write_rows(sheet, products, i) ==
    IF i >= Len(products) THEN sheet
    ELSE gt_write_rows(gt_write_row(sheet, START_ROW + i, products[i + 1]), products, i + 1)

\* insert_products, generate_order_template.py lines 27-49: the placeholder
\* rows are deleted, len(products) rows inserted and filled, and the totals
\* written at START_ROW + len(products).
gt_insert_products(sheet, products) ==
    LET s1 == delete_rows(sheet, START_ROW, PLACEHOLDER_ROWS)
        s2 == insert_rows(s1, START_ROW, Len(products))
    IN  write_totals(gt_write_rows(s2, products, 0), Len(products))

\* Lines 59-64: the footer goes to B69 and E69.
gt_write_footer(sheet, footer) ==
    LET s1 == IF "buyer" \in DOMAIN footer
              THEN SetValue(sheet, << ColB, 69 >>, Txt(footer["buyer"]))
              ELSE sheet
    IN  IF "supplier" \in DOMAIN footer
        THEN SetValue(s1, << ColE, 69 >>, Txt(footer["supplier"]))
        ELSE s1

\* create_order_workbook up to `ws = wb.active` (lines 53-54).
InitTemplateWriterVars ==
    /\ writer = "generate_order_template"
    /\ template \in Templates
    /\ data \in OrderDocs
    /\ ws = template
    /\ mismatches = <<>>
    /\ offset = 0
    /\ saved = FALSE
    /\ w_pc = "fill"

\* Line 56: fill_cells (lines 11-24, the same loop as json_PO_excel's).
GtFillCells ==
    /\ writer = "generate_order_template"
    /\ w_pc = "fill"
    /\ ws' = fill_cells(ws, data.cells)
    /\ w_pc' = "insert"
    /\ UNCHANGED <<writer, template, data, mismatches, offset, saved>>

\* Line 57: insert_products returns nothing.
GtInsertProducts ==
    /\ writer = "generate_order_template"
    /\ w_pc = "insert"
    /\ ws' = gt_insert_products(ws, data.products)
    /\ w_pc' = "footer"
    /\ UNCHANGED <<writer, template, data, mismatches, offset, saved>>

\* Lines 59-64.
GtWriteFooter ==
    /\ writer = "generate_order_template"
    /\ w_pc = "footer"
    /\ ws' = gt_write_footer(ws, data.footer)
    /\ w_pc' = "save"
    /\ UNCHANGED <<writer, template, data, mismatches, offset, saved>>

NextTemplateWriter == GtFillCells \/ GtInsertProducts \/ GtWriteFooter \/ SaveWorkbook

(***************************************************************************)
(*                          WRITE AND READ BACK                            *)
(* A document is written by json_PO_excel.create_order_workbook and the    *)
(* saved workbook is extracted by excel_to_json.parse_order.               *)
(***************************************************************************)

\* The text read_workbook finds for a cell value (lines 68-71): "" for a
\* cell without value, the text of a string or number, None for a formula
\* saved without its result.
SavedText(v) ==
    IF v.kind = "none" THEN <<>>
    ELSE IF v.kind = "text" THEN v.text
    ELSE IF v.kind = "num" /\ v.r1 \in 0..9
         THEN << << "0", "1", "2", "3", "4", "5", "6", "7", "8", "9" >>[v.r1 + 1] >>
    ELSE NoneText

\* The fill read_workbook finds for a cell (lines 75-78): the product rows
\* of the template carry the highlight fill.
SavedColor(style) == IF style = "product" THEN YELLOW ELSE NoColor

\* The saved workbook as read_workbook returns it.
saved_grid(sheet) ==
    [a \in DOMAIN sheet.cells |->
        [val     |-> SavedText(sheet.cells[a].v),
         color   |-> SavedColor(sheet.cells[a].style),
         formula |-> IF sheet.cells[a].v.kind \in {"mul", "sum"}
                     THEN sheet.cells[a].v.kind ELSE "none"]]

InitWriteReadVars ==
    /\ writer = "json_PO_excel"
    /\ template \in Templates
    /\ data \in OrderDocs
    /\ ws = template
    /\ mismatches = <<>>
    /\ offset = 0
    /\ saved = FALSE
    /\ w_pc = "verify"
    /\ x_impl = "style"
    /\ files = << EmptyGrid >>
    /\ x_file = 1
    /\ grid = EmptyGrid
    /\ x_row = 0
    /\ x_header = 0
    /\ x_products = <<>>
    /\ x_cells = NoGrid
    /\ x_docs = NoDocs
    /\ x_written = <<>>
    /\ x_pc = "waiting"

\* The saved workbook is handed to excel_to_json.py main (line 132).
ReadBack ==
    /\ w_pc = "done"
    /\ saved
    /\ x_pc = "waiting"
    /\ files' = << saved_grid(ws) >>
    /\ x_pc' = "read"
    /\ UNCHANGED <<x_impl, x_file, grid, x_row, x_header, x_products, x_cells, x_docs,
                   x_written>>
    /\ UNCHANGED writerVars

NextWriteRead ==
    \/ (VerifyCells \/ VerifyCellsRaise \/ FillCells \/ InsertProducts
          \/ WriteFooter \/ SaveWorkbook)
          /\ UNCHANGED extractVars
    \/ ReadBack
    \/ (ReadGrid \/ StyleRow \/ StyleEnd \/ CollectYellow \/ ReturnDocument \/ WriteOutputs)
          /\ UNCHANGED writerVars

(***************************************************************************)
(*                       LABEL RESOLVER, STEP BY STEP                      *)
(* order_generation/excel_to_json.py, guess_key: the look to the left and  *)
(* the loop `while r > 0` of lines 31-38, one iteration per step.          *)
(***************************************************************************)

\* Before the call.
InitScanVars ==
    /\ sc_cells = NoGrid
    /\ sc_address = << 0, 0 >>
    /\ sc_r = 0
    /\ sc_key = NoneText
    /\ sc_pc = "call"

IdleScanVars ==
    /\ sc_cells = NoGrid
    /\ sc_address = << 0, 0 >>
    /\ sc_r = 0
    /\ sc_key = NoneText
    /\ sc_pc = "idle"

\* guess_key(address, cells) is called (lines 19-20: col and row are taken
\* from the address).
EnterGuessKey ==
    /\ sc_pc = "call"
    /\ \E case \in LabelCases :
          /\ sc_cells' = case.grid
          /\ sc_address' = case.addr
    /\ sc_pc' = "left"
    /\ UNCHANGED <<sc_r, sc_key>>

\* Lines 23-28: the cell to the left supplies the label.
LookLeftReturn ==
    /\ sc_pc = "left"
    /\ sc_address[1] <= ColZ /\ sc_address[1] > ColA
    /\ Qualifies(sc_cells, << sc_address[1] - 1, sc_address[2] >>)
    /\ sc_key' = sc_cells[<< sc_address[1] - 1, sc_address[2] >>].val
    /\ sc_pc' = "done"
    /\ UNCHANGED <<sc_cells, sc_address, sc_r>>

\* Lines 23-31: no label to the left; r = row - 1.
LookLeftPass ==
    /\ sc_pc = "left"
    /\ ~(/\ sc_address[1] <= ColZ /\ sc_address[1] > ColA
         /\ Qualifies(sc_cells, << sc_address[1] - 1, sc_address[2] >>))
    /\ sc_r' = sc_address[2] - 1
    /\ sc_pc' = "up"
    /\ UNCHANGED <<sc_cells, sc_address, sc_key>>

\* Lines 32-37: the cell in row r supplies the label.
UpReturn ==
    /\ sc_pc = "up"
    /\ sc_r > 0
    /\ Qualifies(sc_cells, << sc_address[1], sc_r >>)
    /\ sc_key' = sc_cells[<< sc_address[1], sc_r >>].val
    /\ sc_pc' = "done"
    /\ UNCHANGED <<sc_cells, sc_address, sc_r>>

\* Variant of UpStep whose loop goes on below row 1.
UpStep_BelowRowOne ==
    /\ sc_pc = "up"
    /\ sc_r >= 0
    /\ ~Qualifies(sc_cells, << sc_address[1], sc_r >>)
    /\ sc_r' = sc_r - 1
    /\ UNCHANGED <<sc_cells, sc_address, sc_key, sc_pc>>

\* Lines 32-38: the cell in row r does not; r -= 1.
UpStep ==
    /\ sc_pc = "up"
    /\ sc_r > 0
    /\ ~Qualifies(sc_cells, << sc_address[1], sc_r >>)
    /\ sc_r' = sc_r - 1
    /\ UNCHANGED <<sc_cells, sc_address, sc_key, sc_pc>>

\* Lines 32 and 39: r has reached 0; return ''.
UpExhausted ==
    /\ sc_pc = "up"
    /\ sc_r <= 0
    /\ sc_key' = <<>>
    /\ sc_pc' = "done"
    /\ UNCHANGED <<sc_cells, sc_address, sc_r>>

NextScan == EnterGuessKey \/ LookLeftReturn \/ LookLeftPass \/ UpReturn \/ UpStep \/ UpExhausted

(***************************************************************************)
(*                          SPECIFICATIONS                                 *)
(***************************************************************************)

InitMerge == InitMergeVars /\ IdleBomVars /\ IdleGroupVars /\ IdleWriterVars
    /\ IdleLabelVars /\ IdleExtractVars /\ IdleReaderVars /\ IdleGenVars
    /\ IdleCoerceVars /\ IdleScanVars
StepMerge == NextMerge
    /\ UNCHANGED <<bomVars, groupVars, writerVars, labelVars, extractVars, readerVars, genVars, coerceVars, scanVars>>
SpecMerge == InitMerge /\ [][StepMerge]_vars

InitBom == IdleMergeVars /\ InitBomVars /\ IdleGroupVars /\ IdleWriterVars
    /\ IdleLabelVars /\ IdleExtractVars /\ IdleReaderVars /\ IdleGenVars
    /\ IdleCoerceVars /\ IdleScanVars
StepBom == NextBom
    /\ UNCHANGED <<mergeVars, groupVars, writerVars, labelVars, extractVars, readerVars, genVars, coerceVars, scanVars>>
SpecBom == InitBom /\ [][StepBom]_vars

InitGroup == IdleMergeVars /\ IdleBomVars /\ InitGroupVars /\ IdleWriterVars
    /\ IdleLabelVars /\ IdleExtractVars /\ IdleReaderVars /\ IdleGenVars
    /\ IdleCoerceVars /\ IdleScanVars
StepGroup == NextGroup
    /\ UNCHANGED <<mergeVars, bomVars, writerVars, labelVars, extractVars, readerVars, genVars, coerceVars, scanVars>>
SpecGroup == InitGroup /\ [][StepGroup]_vars

InitWriter == IdleMergeVars /\ IdleBomVars /\ IdleGroupVars /\ InitWriterVars
    /\ IdleLabelVars /\ IdleExtractVars /\ IdleReaderVars /\ IdleGenVars
    /\ IdleCoerceVars /\ IdleScanVars
StepWriter == NextWriter
    /\ UNCHANGED <<mergeVars, bomVars, groupVars, labelVars, extractVars, readerVars, genVars, coerceVars, scanVars>>
SpecWriter == InitWriter /\ [][StepWriter]_vars

InitLabel == IdleMergeVars /\ IdleBomVars /\ IdleGroupVars /\ IdleWriterVars
    /\ InitLabelVars /\ IdleExtractVars /\ IdleReaderVars /\ IdleGenVars
    /\ IdleCoerceVars /\ IdleScanVars
StepLabel == NextLabel
    /\ UNCHANGED <<mergeVars, bomVars, groupVars, writerVars, extractVars, readerVars, genVars, coerceVars, scanVars>>
SpecLabel == InitLabel /\ [][StepLabel]_vars

InitExtract == IdleMergeVars /\ IdleBomVars /\ IdleGroupVars /\ IdleWriterVars
    /\ IdleLabelVars /\ InitExtractVars /\ IdleReaderVars /\ IdleGenVars
    /\ IdleCoerceVars /\ IdleScanVars
StepExtract == NextExtract
    /\ UNCHANGED <<mergeVars, bomVars, groupVars, writerVars, labelVars, readerVars, genVars, coerceVars, scanVars>>
SpecExtract == InitExtract /\ [][StepExtract]_vars

InitReader == IdleMergeVars /\ IdleBomVars /\ IdleGroupVars /\ IdleWriterVars
    /\ IdleLabelVars /\ IdleExtractVars /\ InitReaderVars /\ IdleGenVars
    /\ IdleCoerceVars /\ IdleScanVars
StepReader == NextReader
    /\ UNCHANGED <<mergeVars, bomVars, groupVars, writerVars, labelVars, extractVars, genVars, coerceVars, scanVars>>
SpecReader == InitReader /\ [][StepReader]_vars

InitGen == IdleMergeVars /\ IdleBomVars /\ IdleGroupVars /\ IdleWriterVars
    /\ IdleLabelVars /\ IdleExtractVars /\ IdleReaderVars /\ InitGenVars
    /\ IdleCoerceVars /\ IdleScanVars
StepGen == NextGen
    /\ UNCHANGED <<mergeVars, bomVars, groupVars, writerVars, labelVars, extractVars, readerVars, coerceVars, scanVars>>
SpecGen == InitGen /\ [][StepGen]_vars

InitCoerce == IdleMergeVars /\ IdleBomVars /\ IdleGroupVars /\ IdleWriterVars
    /\ IdleLabelVars /\ IdleExtractVars /\ IdleReaderVars /\ IdleGenVars
    /\ InitCoerceVars /\ IdleScanVars
StepCoerce == NextCoerce
    /\ UNCHANGED <<mergeVars, bomVars, groupVars, writerVars, labelVars, extractVars, readerVars, genVars, scanVars>>
SpecCoerce == InitCoerce /\ [][StepCoerce]_vars

InitScan == IdleMergeVars /\ IdleBomVars /\ IdleGroupVars /\ IdleWriterVars
    /\ IdleLabelVars /\ IdleExtractVars /\ IdleReaderVars /\ IdleGenVars
    /\ IdleCoerceVars /\ InitScanVars
StepScan == NextScan
    /\ UNCHANGED <<mergeVars, bomVars, groupVars, writerVars, labelVars, extractVars, readerVars, genVars, coerceVars>>
SpecScan == InitScan /\ [][StepScan]_vars

InitRoundTrip == InitRoundTripVars /\ IdleMergeVars /\ IdleBomVars
    /\ IdleGroupVars
    /\ IdleLabelVars /\ IdleReaderVars /\ IdleGenVars /\ IdleCoerceVars
    /\ IdleScanVars
StepRoundTrip == NextRoundTrip
    /\ UNCHANGED <<mergeVars, bomVars, groupVars, labelVars, readerVars, genVars, coerceVars, scanVars>>
SpecRoundTrip == InitRoundTrip /\ [][StepRoundTrip]_vars

InitTemplateWriter == InitTemplateWriterVars /\ IdleMergeVars /\ IdleBomVars
    /\ IdleGroupVars /\ IdleLabelVars /\ IdleExtractVars /\ IdleReaderVars
    /\ IdleGenVars /\ IdleCoerceVars /\ IdleScanVars
StepTemplateWriter == NextTemplateWriter
    /\ UNCHANGED <<mergeVars, bomVars, groupVars, labelVars, extractVars, readerVars, genVars, coerceVars, scanVars>>
SpecTemplateWriter == InitTemplateWriter /\ [][StepTemplateWriter]_vars

InitWriteRead == InitWriteReadVars /\ IdleMergeVars /\ IdleBomVars
    /\ IdleGroupVars
    /\ IdleLabelVars /\ IdleReaderVars /\ IdleGenVars /\ IdleCoerceVars
    /\ IdleScanVars
StepWriteRead == NextWriteRead
    /\ UNCHANGED <<mergeVars, bomVars, groupVars, labelVars, readerVars, genVars, coerceVars, scanVars>>
SpecWriteRead == InitWriteRead /\ [][StepWriteRead]_vars

\* The sheets the scans are followed on: highlighted sheets with and without
\* a row below the stop, sheets without a header row or without cells, and
\* tables with every kind of end.
ScanSheets ==
    { << TRUE, g >> : g \in ResumedGrids \cup {EmptyGrid, SimpleSheet, StyleRows(FirstStyleRow, 2)} }
    \cup { << FALSE, g >> : g \in HeadlessGrids \cup {EmptyGrid} }
    \cup { << FALSE, KwGrid(1, ProductKinds(p, n) \o << t >> \o << "full" >>) >> :
              p \in {1, 4}, n \in {0, MaxTableRows}, t \in Terminators }

\* Before the sheet is handed to the extractor.
InitScansVars ==
    /\ x_impl = "style"
    /\ files = << EmptyGrid >>
    /\ x_file = 1
    /\ grid = EmptyGrid
    /\ x_row = 0
    /\ x_header = 0
    /\ x_products = <<>>
    /\ x_cells = NoGrid
    /\ x_docs = NoDocs
    /\ x_written = <<>>
    /\ x_pc = "start"

\* main hands a sheet to parse_order (excel_to_json.py line 132,
\* advanced_excel_to_json.py line 152).
HandSheet ==
    /\ x_pc = "start"
    /\ \E s \in ScanSheets :
          /\ x_impl' = (IF s[1] THEN "style" ELSE "keyword")
          /\ files' = << s[2] >>
    /\ x_pc' = "read"
    /\ UNCHANGED <<x_file, grid, x_row, x_header, x_products, x_cells, x_docs, x_written>>

\* The extraction scans under the fairness of a running program: a loop
\* that can take its next iteration takes it.
InitScanSheets == InitScansVars /\ IdleMergeVars /\ IdleBomVars
    /\ IdleGroupVars
    /\ IdleWriterVars /\ IdleLabelVars /\ IdleReaderVars /\ IdleGenVars
    /\ IdleCoerceVars /\ IdleScanVars
InitScans == InitScanSheets \/ InitScan
StepSheets == (HandSheet \/ NextExtract)
    /\ UNCHANGED <<mergeVars, bomVars, groupVars, writerVars, labelVars, readerVars, genVars, coerceVars, scanVars>>
StepScans == StepSheets \/ StepScan
\* The extractor has a next step exactly while it has not returned or raised.
SheetRunning == x_pc \in {"start", "read", "detect", "table", "collect", "group", "rows", "yellow", "footer", "write"}
\* Weak fairness of the extractor's steps, with the enabling condition
\* written as the state predicate SheetRunning.
FairSheets == []<>(~SheetRunning) \/ []<><<StepSheets>>_vars
SpecScans == InitScans /\ [][StepScans]_vars /\ FairSheets
    /\ WF_vars(StepScan)

Init == InitMerge \/ InitBom \/ InitGroup \/ InitWriter \/ InitLabel
    \/ InitExtract \/ InitReader \/ InitGen \/ InitCoerce \/ InitScan
    \/ InitRoundTrip \/ InitTemplateWriter \/ InitWriteRead \/ InitScans
Next == StepMerge \/ StepBom \/ StepGroup \/ StepWriter \/ StepLabel
    \/ StepExtract \/ StepReader \/ StepGen \/ StepCoerce \/ StepScan
    \/ StepRoundTrip \/ StepTemplateWriter \/ StepWriteRead \/ StepScans
Spec == Init /\ [][Next]_vars

(***************************************************************************)
(*                      PROPERTIES: TEMPLATE MERGE                         *)
(***************************************************************************)

\* The documents merged so far once the loop is entered.
MergedCount == idx - 1

IsEmptyValue(v) == v = "" \/ v = None

HasAddr(i, a) == a \in DOMAIN paths[i].cells

NonEmptyAt(i, a) == HasAddr(i, a) /\ ~IsEmptyValue(paths[i].cells[a].value)

\* The earliest of the documents 1..k with a non-empty value at a.
FirstNonEmpty(k, a) ==
    CHOOSE i \in 1..k : NonEmptyAt(i, a) /\ \A j \in 1..(i - 1) : ~NonEmptyAt(j, a)

\* The latest of the documents 1..k that defines a.
LastDefined(k, a) ==
    CHOOSE i \in 1..k : HasAddr(i, a) /\ \A j \in (i + 1)..k : ~HasAddr(j, a)

\* C1: after the documents 1..k have been merged, every address defined in
\* one of them is in the merged cells and carries the value of the earliest
\* document with a non-empty value there; while every value seen so far is
\* empty, the value is the one of the latest document defining the address
\* (an empty value is replaced by the next document's value).
C1_FirstNonEmptyCellWins ==
    m_pc \in {"loop", "done"} =>
        \A a \in Addrs :
            LET k == MergedCount
            IN  IF \E i \in 1..k : HasAddr(i, a)
                THEN /\ a \in DOMAIN merged.cells
                     /\ merged.cells[a].value =
                          IF \E i \in 1..k : NonEmptyAt(i, a)
                          THEN paths[FirstNonEmpty(k, a)].cells[a].value
                          ELSE paths[LastDefined(k, a)].cells[a].value
                ELSE a \notin DOMAIN merged.cells

C1_Witness ==
    /\ m_pc = "done"
    /\ Len(paths) = 3
    /\ HasAddr(1, "B3") /\ paths[1].cells["B3"].value = ""
    /\ HasAddr(2, "B3") /\ paths[2].cells["B3"].value = "x"
    /\ HasAddr(3, "B3") /\ paths[3].cells["B3"].value = "y"
    /\ merged.cells["B3"].value = "x"

\* The diagnostic expected when document j is merged, for address a: j
\* holds a non-empty value that differs from the value kept from the
\* earlier documents.
ExpectedDiag(j, a) ==
    IF /\ NonEmptyAt(j, a)
       /\ \E i \in 1..(j - 1) : NonEmptyAt(i, a)
       /\ paths[j].cells[a].value # paths[FirstNonEmpty(j - 1, a)].cells[a].value
    THEN << [addr |-> a,
             keeping |-> paths[FirstNonEmpty(j - 1, a)].cells[a].value,
             ignoring |-> paths[j].cells[a].value] >>
    ELSE <<>>

RECURSIVE ExpectedDiagsOfDoc(_, _)
ExpectedDiagsOfDoc(j, n) ==
    IF n > Len(AddrSeq) THEN <<>>
    ELSE ExpectedDiag(j, AddrSeq[n]) \o ExpectedDiagsOfDoc(j, n + 1)

RECURSIVE ExpectedDiags(_)
ExpectedDiags(k) ==
    IF k < 2 THEN <<>> ELSE ExpectedDiags(k - 1) \o ExpectedDiagsOfDoc(k, 1)

\* C2: the diagnostics printed are exactly one per later document and
\* address whose non-empty value differs from the kept (earlier) value, each
\* naming the kept and the ignored value; none is printed for an empty or
\* an equal later value; the kept value stays in the merged document; and a
\* conflict never stops the merge (only an empty list of inputs raises).
C2_ConflictReportedNotFatal ==
    /\ m_pc \in {"loop", "done"} =>
          /\ stderr = ExpectedDiags(MergedCount)
          /\ \A n \in 1..Len(stderr) :
                merged.cells[stderr[n].addr].value = stderr[n].keeping
    /\ m_pc = "error" => paths = <<>>
    /\ m_pc = "loop" => ENABLED NextMerge

C2_Witness ==
    /\ m_pc = "done"
    /\ Len(paths) = 3
    /\ NonEmptyAt(1, "B3") /\ NonEmptyAt(2, "B3")
    /\ HasAddr(3, "B3") /\ IsEmptyValue(paths[3].cells["B3"].value)
    /\ paths[1].cells["B3"].value # paths[2].cells["B3"].value
    /\ Len(stderr) = 1
    /\ stderr[1].keeping = paths[1].cells["B3"].value
    /\ stderr[1].ignoring = paths[2].cells["B3"].value

RECURSIVE ConcatProducts(_)
ConcatProducts(k) ==
    IF k = 0 THEN <<>> ELSE ConcatProducts(k - 1) \o paths[k].products

RECURSIVE CountSku(_, _)
CountSku(ps, sku) ==
    IF ps = <<>> THEN 0
    ELSE (IF Head(ps).sku = sku THEN 1 ELSE 0) + CountSku(Tail(ps), sku)

\* C3: the merged product list is the concatenation of the source lists in
\* input order; its length is the sum of their lengths and every SKU occurs
\* as often as in all sources together (nothing is dropped or summed).
C3_ProductsConcatenated ==
    m_pc \in {"loop", "done"} =>
        /\ merged.products = ConcatProducts(MergedCount)
        /\ Len(merged.products) =
              SumSeq([i \in 1..MergedCount |-> Len(paths[i].products)])
        /\ \A sku \in {"S1", "S2"} :
              CountSku(merged.products, sku) =
                 SumSeq([i \in 1..MergedCount |-> CountSku(paths[i].products, sku)])

C3_Witness ==
    /\ m_pc = "done"
    /\ Len(paths) = 3
    /\ paths[1].products = << Product("S1", 1), Product("S2", 1) >>
    /\ paths[2].products = << Product("S1", 2) >>
    /\ paths[3].products = << Product("S1", 1) >>
    /\ merged.products = << Product("S1", 1), Product("S2", 1),
                            Product("S1", 2), Product("S1", 1) >>

FooterNonEmptyAt(i, key) ==
    key \in DOMAIN paths[i].footer /\ ~IsEmptyValue(paths[i].footer[key])

SameCellsEverywhere == \A i, j \in 1..Len(paths) : paths[i].cells = paths[j].cells

\* C4: each footer field holds the first non-empty value of the documents
\* merged so far; the footer never prints a diagnostic: every message is a
\* cell conflict, and none is printed when the documents' cells agree, even
\* though their footers differ.
C4_FooterFirstNonEmptySilent ==
    m_pc \in {"loop", "done"} =>
        /\ \A key \in FooterKeys :
              (\E i \in 1..MergedCount : FooterNonEmptyAt(i, key)) =>
                 /\ key \in DOMAIN merged.footer
                 /\ LET first == CHOOSE i \in 1..MergedCount :
                                    /\ FooterNonEmptyAt(i, key)
                                    /\ \A j \in 1..(i - 1) : ~FooterNonEmptyAt(j, key)
                    IN  merged.footer[key] = paths[first].footer[key]
        /\ Len(stderr) = Len(ExpectedDiags(MergedCount))
        /\ SameCellsEverywhere => stderr = <<>>

C4_Witness ==
    /\ m_pc = "done"
    /\ Len(paths) = 3
    /\ "buyer" \in DOMAIN paths[1].footer /\ paths[1].footer["buyer"] = ""
    /\ FooterNonEmptyAt(2, "buyer") /\ paths[2].footer["buyer"] = "b1"
    /\ FooterNonEmptyAt(3, "buyer") /\ paths[3].footer["buyer"] = "b2"
    /\ SameCellsEverywhere
    /\ merged.footer["buyer"] = "b1"
    /\ stderr = <<>>

\* No two documents hold different non-empty values at one address.
NoCellConflict ==
    \A a \in Addrs : \A i, j \in 1..Len(paths) :
        (NonEmptyAt(i, a) /\ NonEmptyAt(j, a)) =>
            paths[i].cells[a].value = paths[j].cells[a].value

\* C5: for three or more documents without conflicting cells, merging the
\* whole list gives the same cells as merging the first document with the
\* merge of the others ([A, B, C] against [A, merge([B, C])]).
C5_MergeAssociative ==
    (m_pc = "done" /\ Len(paths) >= 3 /\ NoCellConflict) =>
        merged.cells =
            merge_json_templates(
                << paths[1], merge_json_templates(Tail(paths)).doc >>).doc.cells

C5_Witness ==
    /\ m_pc = "done"
    /\ Len(paths) = 3
    /\ NoCellConflict
    /\ HasAddr(1, "B3") /\ paths[1].cells["B3"].value = ""
    /\ ~HasAddr(2, "B3") /\ HasAddr(2, "G3")
    /\ NonEmptyAt(3, "B3")
    /\ merged.cells["B3"].value = paths[3].cells["B3"].value
(***************************************************************************)
(*                    PROPERTIES: ACCESSORY RESOLVER                       *)
(***************************************************************************)

Abs(n) == IF n < 0 THEN 0 - n ELSE n

\* floor(n / d) for d >= 1, by its defining inequality.
FloorOf(n, d) == CHOOSE k \in (0 - Abs(n))..Abs(n) : k * d <= n /\ n < (k + 1) * d

\* The accessory the last AccessoryStep worked on.
LastAccessory == AccessoriesOf(b_local.sku)[a_idx - 1]

IsIntTerm(t) == t.kind \in {"int", "missing"}

\* C6: after an accessory with ratio main >= 1, accessory >= 0 has been
\* computed for a requested quantity >= 0, the accessory quantity is
\* floor(quantity * accessory / main) and is not negative; when it is the
\* only contribution, it is what the accessory's total holds.
C6_AccessoryRatioFloor ==
    (b_pc = "accessories" /\ a_idx > 1) =>
        LET acc == LastAccessory
            m   == acc.ratio_main
            a   == acc.ratio_accessory
        IN  (/\ IsIntTerm(m) /\ IsIntTerm(a)
             /\ m.n >= 1 /\ a.n >= 0 /\ b_local.qty >= 0) =>
                /\ b_local.acc_qty = FloorOf(b_local.qty * a.n, m.n)
                /\ b_local.acc_qty >= 0
                /\ (Len(requests) = 1 /\ a_idx = 2 /\ acc.sku = "X") =>
                      result["X"] = FloorOf(b_local.qty * a.n, m.n)

\* The spec's example: 100 pieces at ratio main = 3, accessory = 1 give 33.
C6_Witness ==
    /\ b_pc = "accessories" /\ a_idx = 2
    /\ b_local.qty = 100
    /\ LastAccessory.ratio_main = IntTerm(3)
    /\ LastAccessory.ratio_accessory = IntTerm(1)
    /\ b_local.acc_qty = 33
    /\ result["X"] = 33

\* The contribution of one accessory entry to the total of the SKU s, for
\* the requested quantity qty: floor(qty * accessory / main), with the ratio
\* 1:1 when a term cannot be read as an integer.
ContributionOf(e, qty, s) ==
    IF e.sku # s THEN 0
    ELSE IF ~IsIntTerm(e.ratio_main) \/ ~IsIntTerm(e.ratio_accessory) THEN qty
    ELSE FloorOf(qty * e.ratio_accessory.n, e.ratio_main.n)

RECURSIVE ContributionsOfList(_, _, _)
ContributionsOfList(es, qty, s) ==
    IF es = <<>> THEN 0
    ELSE ContributionOf(Head(es), qty, s) + ContributionsOfList(Tail(es), qty, s)

\* Own requested quantity plus the contributions of every requested SKU.
RECURSIVE ExpectedTotal(_, _)
ExpectedTotal(reqs, s) ==
    IF reqs = <<>> THEN 0
    ELSE (IF Head(reqs).sku = s THEN Head(reqs).qty ELSE 0)
         + ContributionsOfList(AccessoriesOf(Head(reqs).sku), Head(reqs).qty, s)
         + ExpectedTotal(Tail(reqs), s)

RequestedSkus == { requests[i].sku : i \in 1..Len(requests) }

ListedAccessorySkus ==
    { e.sku : e \in UNION { { AccessoriesOf(p)[i] : i \in 1..Len(AccessoriesOf(p)) } :
                            p \in RequestedSkus } } \ {""}

\* C7: the returned bill of materials has an entry for every requested SKU
\* and every accessory a requested SKU lists, and each total is the SKU's own
\* requested quantity (0 if not requested) plus the floored contributions of
\* all requested SKUs that list it.
C7_BomAccumulates ==
    b_pc = "done" =>
        /\ DOMAIN result = RequestedSkus \cup ListedAccessorySkus
        /\ \A s \in DOMAIN result : result[s] = ExpectedTotal(requests, s)

\* X is requested itself and is an accessory of the two requested parents.
C7_Witness ==
    /\ b_pc = "done"
    /\ Len(requests) = 3
    /\ requests[1] = [sku |-> "P1", qty |-> 2]
    /\ requests[2] = [sku |-> "P2", qty |-> 3]
    /\ requests[3] = [sku |-> "X", qty |-> 1]
    /\ mapping["P1"] = << Acc("X", IntTerm(2), IntTerm(3)) >>
    /\ mapping["P2"] = << Acc("X", IntTerm(2), IntTerm(1)) >>
    /\ result["X"] = 1 + 3 + 1

(***************************************************************************)
(*                      PROPERTIES: PARENT GROUPING                        *)
(***************************************************************************)

\* The SKU the grouping works with: the field as it is (group_by_parent) or
\* its trimmed text (_group_products).
GroupSku(i) ==
    IF g_impl = "advanced" THEN g_products[i].sku
    ELSE Strip(IF g_products[i].sku = NoneText THEN <<>> ELSE g_products[i].sku)

\* The places (group, position) at which input row i is found.
PlacesOf(i) ==
    { << k, n >> \in UNION { { << k2, n2 >> : n2 \in 1..Len(groups[k2]) } : k2 \in DOMAIN groups } :
        groups[k][n].row = i }

GroupedCount == SumSeq([i \in 1..Len(g_products) |-> Cardinality(PlacesOf(i))])

TotalGroupSize ==
    LET keys == DOMAIN groups
        RECURSIVE Size(_)
        Size(K) == IF K = {} THEN 0
                   ELSE LET k == CHOOSE x \in K : TRUE
                        IN  Len(groups[k]) + Size(K \ {k})
    IN  Size(keys)

IsChild(sku) == \E f \in 1..Len(parents) : ListsChild(parents[f], sku)

IsParentKey(sku) == \E f \in 1..Len(parents) : parents[f].parent = sku

\* Every input product is in exactly one group, exactly once, and the
\* groups hold nothing else.
GroupsPartitionProducts ==
    /\ \A i \in 1..Len(g_products) : Cardinality(PlacesOf(i)) = 1
    /\ TotalGroupSize = Len(g_products)
    /\ \A k \in DOMAIN groups : groups[k] # <<>>
    /\ \A i \in 1..Len(g_products) :
          \A pl \in PlacesOf(i) : groups[pl[1]][pl[2]] = g_products[i]

\* A product whose SKU is listed as a child is in the group of a parent
\* that lists it.
ChildrenJoinParent ==
    \A i \in 1..Len(g_products) :
        IsChild(GroupSku(i)) =>
            \A pl \in PlacesOf(i) :
                \E f \in 1..Len(parents) :
                    parents[f].parent = pl[1] /\ ListsChild(parents[f], GroupSku(i))

\* A product whose SKU is not listed as a child is in the group keyed by
\* its own SKU.
OthersAreOwnParent ==
    \A i \in 1..Len(g_products) :
        ~IsChild(GroupSku(i)) => \A pl \in PlacesOf(i) : pl[1] = GroupSku(i)

\* C8 as claimed: in addition, the group of a SKU that is not in the
\* mapping holds a single item.
C8_Original ==
    g_pc = "done" =>
        /\ GroupsPartitionProducts
        /\ ChildrenJoinParent
        /\ OthersAreOwnParent
        /\ \A i \in 1..Len(g_products) :
              (~IsChild(GroupSku(i)) /\ ~IsParentKey(GroupSku(i))) =>
                  Len(groups[GroupSku(i)]) = 1

\* C8 (amended): every product is in exactly one group, exactly once; a
\* child SKU is in the group of a parent that lists it; any other SKU is its
\* own parent, and the group of a SKU that the mapping does not mention holds
\* exactly the products carrying that SKU (one item only when the SKU occurs
\* once in the input).
C8_GroupsPartition ==
    g_pc = "done" =>
        /\ GroupsPartitionProducts
        /\ ChildrenJoinParent
        /\ OthersAreOwnParent
        /\ \A i \in 1..Len(g_products) :
              (~IsChild(GroupSku(i)) /\ ~IsParentKey(GroupSku(i))) =>
                  /\ GroupSku(i) \in DOMAIN groups
                  /\ { groups[GroupSku(i)][n].row : n \in 1..Len(groups[GroupSku(i)]) }
                       = { j \in 1..Len(g_products) : GroupSku(j) = GroupSku(i) }

\* A child, an unmapped SKU and a second row with the same unmapped SKU.
C8_Witness ==
    /\ g_pc = "done"
    /\ parents = << Family(SkuA, << SkuA, SkuA1 >>) >>
    /\ Len(g_products) = 3
    /\ GroupSku(1) = SkuA1 /\ GroupSku(2) = SkuC /\ GroupSku(3) = SkuC
    /\ DOMAIN groups = {SkuA, SkuC}
    /\ Len(groups[SkuA]) = 1 /\ Len(groups[SkuC]) = 2
(***************************************************************************)
(*                      PROPERTIES: ORDER WRITERS                          *)
(***************************************************************************)

EntryAt(i) == data.cells[i]

\* The template's text at an address, trimmed; "" for an empty cell.
TrimmedTemplateText(a) ==
    IF a \in DOMAIN template.cells /\ template.cells[a].v.kind = "text"
    THEN Strip(template.cells[a].v.text)
    ELSE <<>>

\* The template's text at an address as it is; NoneText for an empty cell.
RawTemplateText(a) ==
    IF a \in DOMAIN template.cells /\ template.cells[a].v.kind = "text"
    THEN template.cells[a].v.text
    ELSE NoneText

\* Entry i carries a recorded label and the template's trimmed text at its
\* address differs from it.
LabelMismatch(i) ==
    /\ EntryAt(i).key # NoneText
    /\ TrimmedTemplateText(EntryAt(i).addr) # EntryAt(i).key

\* Entry i fails PO_excel's rule: it has a non-empty label that is found
\* neither in the cell itself nor in the cell to its left.
PoLabelMismatch(i) ==
    LET e == EntryAt(i)
    IN  /\ e.key # NoneText
        /\ e.key # <<>>
        /\ RawTemplateText(e.addr) # e.key
        /\ \/ e.addr[1] = 1
           \/ RawTemplateText(<< e.addr[1] - 1, e.addr[2] >>) # e.key

Entries == 1..Len(data.cells)

NothingWritten == ws = template /\ ~saved /\ offset = 0

\* C9 as claimed: whichever writer runs, a label that differs from the
\* template's text at its address stops the run with nothing written.
C9_Original ==
    (writer # "idle" /\ \E i \in Entries : LabelMismatch(i)) =>
        /\ w_pc \in {"verify", "error"}
        /\ NothingWritten

\* C9 (amended): a writer that raises the label mismatch has written
\* nothing and saved nothing, and a document that fails the writer's own
\* verification never gets past it; json_PO_excel fails a document when the
\* trimmed template text at a labelled address differs from the label,
\* PO_excel when a non-empty label is found neither at the address nor in
\* the cell to its left.
C9_VerifyBeforeMutate ==
    /\ w_pc \in {"verify", "error"} => NothingWritten
    /\ w_pc = "error" => mismatches # <<>>
    /\ (writer = "json_PO_excel" /\ \E i \in Entries : LabelMismatch(i)) =>
          w_pc \in {"verify", "error"}
    /\ (writer = "PO_excel" /\ \E i \in Entries : PoLabelMismatch(i)) =>
          w_pc \in {"verify", "error"}
    /\ (writer = "json_PO_excel" /\ w_pc = "error") => \E i \in Entries : LabelMismatch(i)
    /\ (writer = "PO_excel" /\ w_pc = "error") => \E i \in Entries : PoLabelMismatch(i)

\* The template holds "M" at B3 where the document recorded "L", the
\* document has a value and products to write, and the run has raised.
C9_Witness ==
    /\ writer = "json_PO_excel"
    /\ w_pc = "error"
    /\ RawTemplateText(AddrB3) = LabelM
    /\ \E i \in Entries : EntryAt(i) = Entry(AddrB3, LabelL, << "v" >>)
    /\ Len(data.products) = MaxProducts
    /\ "buyer" \in DOMAIN data.footer
    /\ ws = template

ReportedAddrs == { mismatches[n].addr : n \in 1..Len(mismatches) }

\* C10 as claimed: whichever writer runs, the failure lists exactly the
\* addresses whose label differs from the trimmed template text, and the
\* run fails exactly when there is such an address.
C10_Original ==
    /\ w_pc = "error" =>
          ReportedAddrs = { EntryAt(i).addr : i \in { j \in Entries : LabelMismatch(j) } }
    /\ (writer # "idle" /\ w_pc # "verify") =>
          (w_pc = "error" <=> \E i \in Entries : LabelMismatch(i))

\* C10 (amended): json_PO_excel checks every entry with a recorded label
\* against the trimmed template text at the same address and raises one
\* failure listing every mismatching address, in document order, with the
\* text found and the label expected.  PO_excel stops at the first entry, in
\* document order, whose non-empty label is found neither at the address nor
\* to its left, and reports that one address only.
C10_AllMismatchesAggregated ==
    /\ (writer = "json_PO_excel" /\ w_pc # "verify") =>
          (w_pc = "error" <=> \E i \in Entries : LabelMismatch(i))
    /\ (writer = "json_PO_excel" /\ w_pc = "error") =>
          LET bad == { j \in Entries : LabelMismatch(j) }
          IN  /\ Len(mismatches) = Cardinality(bad)
              /\ ReportedAddrs = { EntryAt(i).addr : i \in bad }
              /\ \A n \in 1..Len(mismatches) :
                    \E i \in bad :
                        /\ Cardinality({ j \in bad : j < i }) = n - 1
                        /\ mismatches[n].addr = EntryAt(i).addr
                        /\ mismatches[n].json = EntryAt(i).key
                        /\ mismatches[n].template = TrimmedTemplateText(EntryAt(i).addr)
    /\ (writer = "PO_excel" /\ w_pc # "verify") =>
          (w_pc = "error" <=> \E i \in Entries : PoLabelMismatch(i))
    /\ (writer = "PO_excel" /\ w_pc = "error") =>
          /\ Len(mismatches) = 1
          /\ \E i \in Entries :
                /\ PoLabelMismatch(i)
                /\ \A j \in Entries : j < i => ~PoLabelMismatch(j)
                /\ mismatches[1].addr = EntryAt(i).addr
                /\ mismatches[1].json = EntryAt(i).key

\* Two labelled cells, both wrong in the template (B3 holds "M" for "L",
\* G3 is empty for "N"): one failure lists both addresses.
C10_Witness ==
    /\ writer = "json_PO_excel"
    /\ w_pc = "error"
    /\ Len(data.cells) = 2
    /\ LabelMismatch(1) /\ LabelMismatch(2)
    /\ Len(mismatches) = 2
    /\ ReportedAddrs = {AddrB3, AddrG3}
\* The rows the writers fill: the products, and the placeholders left over
\* when there are fewer products than placeholders.
WrittenRows == START_ROW..(START_ROW + Max(Len(data.products), PLACEHOLDER_ROWS) - 1)

ProductsWritten == w_pc \in {"footer", "save", "done"}

\* C19: once the product rows are written, and in the saved workbook, column
\* F of every product row r holds the formula =E{r}*D{r} over the row's own
\* price and quantity cells, not a number and not another row's cells; rows
\* inserted below the placeholders included.
C19_ExtensionIsRowFormula ==
    ProductsWritten =>
        \A r \in WrittenRows :
            LET f == ValueAt(ws, << ColF, r >>)
            IN  f.kind = "mul" /\ f.r1 = r /\ f.r2 = r

\* More products than placeholders: the row inserted at 10 has its formula.
C19_Witness ==
    /\ w_pc = "done" /\ saved
    /\ Len(data.products) = PLACEHOLDER_ROWS + 1
    /\ offset = 1
    /\ ValueAt(ws, << ColF, START_ROW + PLACEHOLDER_ROWS >>).kind = "mul"
    /\ ValueAt(ws, << ColF, START_ROW + PLACEHOLDER_ROWS >>).r1 = START_ROW + PLACEHOLDER_ROWS
    /\ ValueAt(ws, << ColD, START_ROW + PLACEHOLDER_ROWS >>) = Num(PLACEHOLDER_ROWS + 1)
(***************************************************************************)
(*                      PROPERTIES: LABEL RESOLVER                         *)
(***************************************************************************)

LeftOf(a) == << a[1] - 1, a[2] >>

\* The cell exists, is not empty and does not carry the highlight fill.
IsLabelCell(cells, a) ==
    /\ a \in DOMAIN cells
    /\ cells[a].val # NoneText /\ cells[a].val # <<>>
    /\ cells[a].color # YELLOW

\* The rows above a in its column whose cell can serve as a label.
LabelRowsAbove(cells, a) == { r \in 1..(a[2] - 1) : IsLabelCell(cells, << a[1], r >>) }

NearestOf(rows) == CHOOSE r \in rows : \A q \in rows : q <= r

\* The label the algorithm describes: the left neighbour when it can serve
\* as a label, otherwise the nearest cell above that can, otherwise "".
DescribedLabel(cells, a) ==
    IF a[1] > 1 /\ IsLabelCell(cells, LeftOf(a)) THEN cells[LeftOf(a)].val
    ELSE IF LabelRowsAbove(cells, a) # {}
         THEN cells[<< a[1], NearestOf(LabelRowsAbove(cells, a)) >>].val
    ELSE <<>>

\* C20: for every target address the resolver returns the label the
\* algorithm describes.
C20_Original ==
    \A n \in 1..Len(lr_results) : lr_results[n] = DescribedLabel(lr_cells, lr_addr)

\* The resolver follows the described algorithm for a target in a column
\* with a one-letter name (A..Z); beyond Z the left neighbour is not looked
\* at and the label comes from above.
C20_SingleLetterColumns ==
    \A n \in 1..Len(lr_results) :
        lr_results[n] =
            IF lr_addr[1] <= ColZ THEN DescribedLabel(lr_cells, lr_addr)
            ELSE IF LabelRowsAbove(lr_cells, lr_addr) # {}
                 THEN lr_cells[<< lr_addr[1],
                                  NearestOf(LabelRowsAbove(lr_cells, lr_addr)) >>].val
            ELSE <<>>

HasRecognizedValue(g, h, r) ==
    \E c \in COLUMNS : /\ cell_text(g, << c, h >>) \in HeaderTexts
                       /\ cell_text(g, << c, r >>) # <<>>

StartsWithTotal(g, r) ==
    LET first == cell_text(g, << ColA, r >>)
    IN  first = << "zongji" >> \/ (first # <<>> /\ first[1] = "TOTAL")

\* Header row h is followed by n product rows (a product row is not itself
\* a total row) and then by a row whose first cell is the total marker.
ProductRowsThenMarker(g, h, n) ==
    /\ \A r \in (h + 1)..(h + n) : HasRecognizedValue(g, h, r) /\ ~StartsWithTotal(g, r)
    /\ cell_text(g, << ColA, h + n + 1 >>) = << "zongji" >>

TableParsed == x_impl = "keyword" /\ x_pc \in {"collect", "group", "write"} /\ x_header >= 1

\* C12: when the header row is followed by n product rows and then a row
\* whose first cell is the total marker, the keyword-based detector returns
\* exactly the items of those n rows, in row order, and stops at the marker
\* row: nothing of the marker row or of the rows below it is returned.
C12_TableTermination ==
    TableParsed =>
        \A n \in 0..max_row(grid) :
            ProductRowsThenMarker(grid, x_header, n) =>
                /\ Len(x_products) = n
                /\ \A i \in 1..n :
                      x_products[i] = item_of(grid, x_header + i, header_of(grid, x_header))
                /\ x_row = x_header + n + 1

\* Five product rows, the marker row and a full row below it: five products
\* were returned.
C12_Witness ==
    /\ TableParsed
    /\ x_pc = "write"
    /\ ProductRowsThenMarker(grid, x_header, 5)
    /\ HasRecognizedValue(grid, x_header, x_header + 7)
    /\ Len(x_products) = 5
    /\ x_products[2]["qty"] = Num(2)

\* The rows the products of the current file were read from: from row 7 on
\* for the style-based detector, from the row below the header on for the
\* keyword-based one.
ProductRowRange ==
    IF x_impl = "style"
    THEN FirstStyleRow..(FirstStyleRow + Len(x_products) - 1)
    ELSE (x_header + 1)..(x_header + Len(x_products))

\* C13: in every document extracted from a file, by either detector, no
\* address of `cells` lies in a row of the product row range.
C13_CellsExcludeProductRows ==
    x_pc = "write" =>
        \A i \in 1..Len(x_docs) :
            \A a \in DOMAIN x_docs[i].cells : a[2] \notin ProductRowRange

\* The style-based detector returned two products or more, a highlighted
\* cell above them and the highlighted cells of the row right below them.
C13_Witness ==
    /\ x_impl = "style"
    /\ x_pc = "write"
    /\ Len(x_products) >= 2
    /\ << ColB, 3 >> \in DOMAIN x_docs[1].cells
    /\ << ColA, FirstStyleRow + Len(x_products) >> \in DOMAIN x_docs[1].cells

\* The rows above a in its column whose cell holds a value, highlighted or
\* not.
NonEmptyRowsAbove(cells, a) ==
    { r \in 1..(a[2] - 1) : /\ << a[1], r >> \in DOMAIN cells
                            /\ cells[<< a[1], r >>].val # NoneText
                            /\ cells[<< a[1], r >>].val # <<>> }

LabelOf(i, a) == x_docs[i].cells[a].key

\* C14 as stated: the label of every labelled cell of an extracted document
\* is empty, or the text of the cell to its left, or the text of the
\* nearest non-empty cell above it.
C14_Original ==
    x_pc = "write" =>
        \A i \in 1..Len(x_docs) : \A a \in DOMAIN x_docs[i].cells :
            \/ LabelOf(i, a) = <<>>
            \/ LeftOf(a) \in DOMAIN grid /\ LabelOf(i, a) = grid[LeftOf(a)].val
            \/ /\ NonEmptyRowsAbove(grid, a) # {}
               /\ LabelOf(i, a) = grid[<< a[1], NearestOf(NonEmptyRowsAbove(grid, a)) >>].val

\* C14: the label of every labelled cell of an extracted document is empty,
\* or the text of the cell to its left when that cell is not empty and not
\* highlighted, or the text of the nearest cell above it that is not empty
\* and not highlighted (highlighted cells in between are passed over).
C14_LabelFromLabelCell ==
    x_pc = "write" =>
        \A i \in 1..Len(x_docs) : \A a \in DOMAIN x_docs[i].cells :
            \/ LabelOf(i, a) = <<>>
            \/ IsLabelCell(grid, LeftOf(a)) /\ LabelOf(i, a) = grid[LeftOf(a)].val
            \/ /\ LabelRowsAbove(grid, a) # {}
               /\ LabelOf(i, a) = grid[<< a[1], NearestOf(LabelRowsAbove(grid, a)) >>].val

\* A highlighted B4 without left neighbour, right below the highlighted and
\* filled-in B3, took the text of B2 as its label.
C14_Witness ==
    /\ x_impl = "style"
    /\ x_pc = "write"
    /\ << ColB, 4 >> \in DOMAIN x_docs[1].cells
    /\ << ColA, 4 >> \notin DOMAIN grid
    /\ grid[<< ColB, 3 >>].color = YELLOW
    /\ grid[<< ColB, 3 >>].val = TextAt(<< ColB, 3 >>)
    /\ x_docs[1].cells[<< ColB, 4 >>].key = TextAt(<< ColB, 2 >>)

QtyTokens == { << "shuliang" >>, << "shuliang", "/", "ge" >> }

PriceTokens == { << "danjia" >>, << "danjia", "/", "ge" >> }

\* No row of the grid holds both a quantity token and a unit-price token in
\* columns A to L.
NoHeaderRow(g) ==
    \A r \in { a[2] : a \in DOMAIN g } :
        ~(/\ \E c \in COLUMNS : cell_text(g, << c, r >>) \in QtyTokens
          /\ \E c \in COLUMNS : cell_text(g, << c, r >>) \in PriceTokens)

WrittenFor(f) == { k \in 1..Len(x_written) : x_written[k].file = f }

\* The cells of a grid that are not blank.
NonBlank(g) == { a \in DOMAIN g : cell_text(g, a) # <<>> }

\* C17 as stated: a file in which no row holds both tokens yields no order
\* document.
C17_Original ==
    x_impl = "keyword" =>
        \A k \in 1..Len(x_written) : ~NoHeaderRow(files[x_written[k].file])

\* C17: a file with cells in which no row holds both tokens (in columns A to
\* L) does not fail: it yields exactly one document, without products and
\* footer, whose cells are all the non-blank cells of the sheet; the batch
\* driver writes it and goes on to the next file.  Only a sheet without any
\* cell makes the header detection raise, and that error ends the batch.
C17_HeadlessYieldsEmptyDocument ==
    x_impl = "keyword" =>
        /\ \A k \in 1..Len(x_written) :
              LET g == files[x_written[k].file]
              IN  NoHeaderRow(g) =>
                     /\ x_written[k].doc.products = <<>>
                     /\ x_written[k].doc.footer = EmptyMap
                     /\ DOMAIN x_written[k].doc.cells = NonBlank(g)
        /\ \A f \in 1..Len(files) :
              (NoHeaderRow(files[f]) /\ DOMAIN files[f] # {} /\ (f < x_file \/ x_pc = "done"))
                 => Cardinality(WrittenFor(f)) = 1
        /\ x_pc = "error" => DOMAIN files[x_file] = {}
        /\ \A f \in 1..Len(files) : DOMAIN files[f] = {} => x_file <= f /\ x_pc # "done"

\* A batch of two files is done: the first one, without header row, gave a
\* document without products, the second one a document with products.
C17_Witness ==
    /\ x_impl = "keyword"
    /\ x_pc = "done"
    /\ Len(files) = 2
    /\ DOMAIN files[1] # {}
    /\ NoHeaderRow(files[1])
    /\ Len(x_written) >= 2
    /\ x_written[1].file = 1
    /\ x_written[1].doc.products = <<>>
    /\ DOMAIN x_written[1].doc.cells # {}
    /\ x_written[2].file = 2
    /\ x_written[2].doc.products # <<>>

\* ---- cell-grid reader ----

RequiredPartMissing == ~rd_pkg.styles.present \/ ~rd_pkg.sheet.present

\* C18: reading fails exactly when the main sheet or the style table is
\* missing: a package with both is read (whether or not it has a
\* shared-string table, a fill list, a colour attribute), a cell whose fill
\* has no colour getting "no color".
C18_Original ==
    /\ rd_pc = "raised" => RequiredPartMissing
    /\ rd_pc = "returned" =>
          /\ ~RequiredPartMissing
          /\ \A i \in 1..Len(rd_pkg.sheet.cells) :
                LET c == rd_pkg.sheet.cells[i]
                IN  /\ c.r \in DOMAIN rd_cells
                    /\ (c.s # NoStyle
                        /\ rd_pkg.styles.fills[rd_pkg.styles.xfs[c.s + 1] + 1] \notin {YELLOW, OtherColor})
                       => rd_cells[c.r].color = NoColor

\* A package with sheet and style table, the latter without fill list, made
\* the reader raise.
C18_Witness ==
    /\ rd_pc = "raised"
    /\ rd_error = "AttributeError"
    /\ rd_pkg.styles.present /\ rd_pkg.sheet.present
    /\ ~rd_pkg.styles.hasFills
    /\ rd_pkg.styles.hasXfs

\* ---- factory document generation ----

ItemSkus == { gn_items[i].sku : i \in 1..Len(gn_items) }

WarningsFor(sku) ==
    { k \in 1..Len(gn_stdout) :
        gn_stdout[k].warning = "template not found" /\ gn_stdout[k].sku = sku }

\* The places of the written documents that hold a line of the SKU.
LinesOf(sku) ==
    { << k, j >> \in (1..Len(gn_out)) \X (1..Len(gn_items)) :
        j <= Len(gn_out[k].doc.products) /\ gn_out[k].doc.products[j].sku = sku }

RequestedSkusOf(reqs) == { reqs[i].sku : i \in 1..Len(reqs) }

\* C16 as stated: a SKU of the bill of materials that is absent from the
\* accessory mapping or has no template gets a diagnostic and is left out
\* of the output; every other SKU is written.
C16_Original ==
    gn_pc = "done" =>
        \A sku \in ItemSkus :
            IF sku \notin DOMAIN gn_mapping \/ sku \notin DOMAIN gn_templates
            THEN WarningsFor(sku) # {} /\ LinesOf(sku) = {}
            ELSE LinesOf(sku) # {}

\* C16: a SKU of the bill of materials without template gets one warning
\* and is left out of the output, every SKU with a template is written once
\* with its quantity and without warning; a SKU absent from the accessory
\* mapping gets no diagnostic and is not skipped: it has no accessories.
C16_MissingTemplateSkipped ==
    /\ gn_pc = "done" =>
          \A i \in 1..Len(gn_items) :
              LET sku == gn_items[i].sku
              IN  IF sku \notin DOMAIN gn_templates
                  THEN Cardinality(WarningsFor(sku)) = 1 /\ LinesOf(sku) = {}
                  ELSE /\ WarningsFor(sku) = {}
                       /\ Cardinality(LinesOf(sku)) = 1
                       /\ \A p \in LinesOf(sku) :
                             gn_out[p[1]].doc.products[p[2]].qty = gn_items[i].qty
    /\ (gn_pc # "start" /\ RequestedSkusOf(gn_requests) \cap DOMAIN gn_mapping = {})
          => gn_items = gn_requests

\* Two SKUs were requested, neither known to the accessory mapping: the one
\* without template got the warning, the other one was written.
C16_Witness ==
    /\ gn_pc = "done"
    /\ Len(gn_items) = 2
    /\ gn_mapping = EmptyMap
    /\ gn_items[1].sku \notin DOMAIN gn_templates
    /\ WarningsFor(gn_items[1].sku) # {}
    /\ gn_items[2].sku \in DOMAIN gn_templates
    /\ LinesOf(gn_items[2].sku) # {}

\* ---- round trip ----

\* The cells of the extracted sheet that hold an entered value: highlighted,
\* not empty, not the result of a formula.
EnteredCells(sheet) ==
    { a \in DOMAIN sheet : /\ sheet[a].color = YELLOW
                           /\ sheet[a].val # <<>>
                           /\ sheet[a].formula = "none" }

\* The written workbook holds every entered value of the sheet at its
\* address (which includes the product rows).
Reproduces ==
    \A a \in EnteredCells(files[1]) : ValueAt(ws, a) = Txt(files[1][a].val)

\* C11: extracting a sheet with parse_order and writing the document into
\* the blank template of the sheet with create_order_workbook succeeds and
\* gives back the product list and the entered values at their addresses.
C11_Original ==
    x_impl = "style" /\ writer = "json_PO_excel" =>
        /\ w_pc # "error"
        /\ w_pc = "done" => Reproduces

\* The sheet had the label in A3 and the entered value in B3, the template
\* the label in A3 and an empty B3: the writer raised on B3.
C11_Witness ==
    /\ x_pc = "done"
    /\ w_pc = "error"
    /\ << ColA, 3 >> \in DOMAIN files[1]
    /\ files[1][<< ColA, 3 >>].val = TextAt(<< ColA, 3 >>)
    /\ files[1][<< ColB, 3 >>].val = TextAt(<< ColB, 3 >>)
    /\ ValueAt(template, << ColB, 3 >>) = NoVal
    /\ ValueAt(template, << ColA, 3 >>) = Txt(TextAt(<< ColA, 3 >>))
    /\ \E i \in 1..Len(mismatches) : mismatches[i].addr = << ColB, 3 >>

\* No cell of the row holds text.
RowEntirelyEmpty(g, r) == \A a \in DOMAIN g : a[2] = r => cell_text(g, a) = <<>>

TotalMarkers == {"TOTAL", "zongji"}

RemarkMarkers == {"beizhu"}

FirstCellBeginsWith(g, r, markers) ==
    LET first == cell_text(g, << ColA, r >>)
    IN  first # <<>> /\ first[1] \in markers

\* The three conditions that are said to end the data block.
SaidTerminal(g, r) ==
    \/ RowEntirelyEmpty(g, r)
    \/ FirstCellBeginsWith(g, r, TotalMarkers)
    \/ FirstCellBeginsWith(g, r, RemarkMarkers)

FirstSaidTerminal(g, h) ==
    CHOOSE r \in (h + 1)..(max_row(g) + 1) :
        SaidTerminal(g, r) /\ \A q \in (h + 1)..(r - 1) : ~SaidTerminal(g, q)

\* C21: the data block below the header ends at the first row that is
\* entirely empty, or whose first cell begins with a total marker, or whose
\* first cell matches a remarks marker: the products are the rows between
\* the header and that row, and nothing of that row or below is returned.
C21_Original ==
    TableParsed =>
        /\ Len(x_products) = FirstSaidTerminal(grid, x_header) - x_header - 1
        /\ x_row = FirstSaidTerminal(grid, x_header)

\* A remarks row with text in a header column was returned as a product.
C21_Witness ==
    /\ TableParsed
    /\ x_pc = "write"
    /\ Len(x_products) >= 2
    /\ FirstCellBeginsWith(grid, x_header + Len(x_products), RemarkMarkers)
    /\ x_products[Len(x_products)]["sku"] = Txt(<< "beizhu", ":" >>)

\* Every cell A..G of the row exists and carries the highlight fill.
FullyHighlighted(g, r) ==
    \A c \in ColA..ColG : << c, r >> \in DOMAIN g /\ g[<< c, r >>].color = YELLOW

\* The length of the run of fully highlighted rows that starts at row 7.
HighlightedRun(g) ==
    CHOOSE n \in 0..Cardinality(DOMAIN g) :
        /\ \A r \in FirstStyleRow..(FirstStyleRow + n - 1) : FullyHighlighted(g, r)
        /\ ~FullyHighlighted(g, FirstStyleRow + n)

StyleScanDone == x_impl = "style" /\ x_pc \in {"yellow", "footer"}

\* C22: the style-based detection returns exactly the maximal run of
\* consecutive rows from row 7 on whose cells A..G are all highlighted, in
\* order, and no row after the first failing row.
C22_MaximalHighlightedRun ==
    StyleScanDone =>
        /\ Len(x_products) = HighlightedRun(grid)
        /\ x_row = FirstStyleRow + HighlightedRun(grid)
        /\ \A i \in 1..Len(x_products) :
              x_products[i] = style_product(grid, FirstStyleRow + i - 1)

\* The loop stopped at a row that lacks a cell or has another fill, and a
\* fully highlighted row below it was not returned.
C22_Witness ==
    /\ StyleScanDone
    /\ Len(x_products) >= 1
    /\ \E c \in ColA..ColG :
          \/ << c, x_row >> \notin DOMAIN grid
          \/ grid[<< c, x_row >>].color = OtherColor
    /\ << ColA, x_row >> \in DOMAIN grid
    /\ FullyHighlighted(grid, x_row + 1)

(***************************************************************************)
(*                    PROPERTIES: NUMERIC COERCION                         *)
(***************************************************************************)

Blank(t) == \A i \in 1..Len(t) : t[i] = " "

\* The text between its leading and trailing blanks.
Core(t) ==
    IF Blank(t) THEN <<>>
    ELSE LET i == CHOOSE k \in 1..Len(t) : t[k] # " " /\ \A j \in 1..(k - 1) : t[j] = " "
             j == CHOOSE k \in 1..Len(t) : t[k] # " " /\ \A l \in (k + 1)..Len(t) : t[l] = " "
         IN  SubSeq(t, i, j)

\* An optional minus sign and digits.
IntegerText(t) ==
    LET u == IF t # <<>> /\ t[1] = "-" THEN Tail(t) ELSE t
    IN  u # <<>> /\ \A i \in 1..Len(u) : u[i] \in Digits

\* An optional minus sign, digits, a decimal point, digits.
DecimalText(t) ==
    LET u == IF t # <<>> /\ t[1] = "-" THEN Tail(t) ELSE t
    IN  \E d \in 2..(Len(u) - 1) :
           /\ u[d] = "."
           /\ \A i \in (1..Len(u)) \ {d} : u[i] \in Digits

\* C23: the numeric coercion raises for no input text: blank text yields the
\* empty string, integer text an integer, decimal text a decimal number, and
\* any other text comes back unchanged or as the number it spells.
C23_CoercionNeverRaises ==
    (cv_pc \notin {"idle", "call"}) =>
        /\ cv_pc = "returned"
        /\ cv_result.kind \in {"text", "num", "float"}
        /\ Blank(cv_val) => cv_result = Txt(<<>>)
        /\ IntegerText(Core(cv_val)) => cv_result.kind = "num"
        /\ DecimalText(Core(cv_val)) => cv_result = Flt(Core(cv_val))
        /\ cv_result.kind = "text" => (Blank(cv_val) \/ cv_result.text = cv_val)
        /\ (~Blank(cv_val) /\ ~IsInt(Core(cv_val)) /\ ~IsFloat(Core(cv_val)))
              => cv_result = Txt(cv_val)

\* A text that neither int() nor float() accepts came back as it was.
C23_Witness ==
    /\ cv_pc = "returned"
    /\ cv_val = << "7", "-", "a" >>
    /\ cv_result = Txt(cv_val)

(***************************************************************************)
(*                  PROPERTIES: TOTALS, FOOTER, EXPANSION                  *)
(***************************************************************************)

SheetRowNumbers == 1..(BUYER_ROW + MaxProducts)

\* The product rows the writer has written: those that hold a row formula.
FormulaRows == { r \in SheetRowNumbers : ValueAt(ws, << ColF, r >>).kind = "mul" }

\* C24: for every product-list length, the totals stand in the row right
\* after the last written product row, as SUM formulas over columns D and F
\* whose range runs from the first to the last written product row, first
\* row <= last row.
C24_Original ==
    (writer # "idle" /\ ProductsWritten) =>
        \E a, b \in SheetRowNumbers :
            /\ a <= b
            /\ FormulaRows = a..b
            /\ ValueAt(ws, << ColD, b + 1 >>) = SumF(ColD, a, b)
            /\ ValueAt(ws, << ColF, b + 1 >>) = SumF(ColF, a, b)

\* The template writer was given no product: the totals in row 7 sum the
\* range 7:6.
C24_Witness ==
    /\ writer = "generate_order_template"
    /\ w_pc = "done" /\ saved
    /\ data.products = <<>>
    /\ FormulaRows = {}
    /\ ValueAt(ws, << ColD, START_ROW >>) = SumF(ColD, START_ROW, START_ROW - 1)
    /\ ValueAt(ws, << ColF, START_ROW >>) = SumF(ColF, START_ROW, START_ROW - 1)

FooterWritten == w_pc \in {"save", "done"}

\* The row that holds the template's footer labels.
FooterLabelRows ==
    { r \in SheetRowNumbers :
        /\ ValueAt(ws, << ColA, r >>) = Txt(<< "b", ":" >>)
        /\ StyleAt(ws, << ColA, r >>) = "footer" }

\* C25: for every product count the buyer and supplier values land on the
\* template's footer cells, wherever the row insertion has moved them.
C25_Original ==
    (writer # "idle" /\ FooterWritten) =>
        \A r \in FooterLabelRows :
            /\ "buyer" \in DOMAIN data.footer =>
                  ValueAt(ws, << ColB, r >>) = Txt(data.footer["buyer"])
            /\ "supplier" \in DOMAIN data.footer =>
                  ValueAt(ws, << ColE, r >>) = Txt(data.footer["supplier"])

\* The template writer was given four products: the footer labels have
\* moved to row 70 and the buyer was written at B69.
C25_Witness ==
    /\ writer = "generate_order_template"
    /\ w_pc = "done" /\ saved
    /\ Len(data.products) = PLACEHOLDER_ROWS + 1
    /\ "buyer" \in DOMAIN data.footer
    /\ FooterLabelRows = {BUYER_ROW + 1}
    /\ ValueAt(ws, << ColB, BUYER_ROW + 1 >>) = NoVal
    /\ ValueAt(ws, << ColB, BUYER_ROW >>) = Txt(data.footer["buyer"])

LastPlaceholderRow == START_ROW + PLACEHOLDER_ROWS - 1

\* The rows between the last placeholder row and the template's total row.
InsertedRows ==
    { r \in SheetRowNumbers :
        /\ r > LastPlaceholderRow
        /\ \E t \in SheetRowNumbers :
              /\ r < t
              /\ ValueAt(ws, << ColA, t >>) = Txt(<< "T" >>)
              /\ StyleAt(ws, << ColA, t >>) = "total" }

SameFormatting(r, q) ==
    /\ HeightAt(ws, r) = HeightAt(ws, q)
    /\ \A c \in ColA..ColG : StyleAt(ws, << c, r >>) = StyleAt(ws, << c, q >>)

\* C26: with n products and P placeholder rows, n > P inserts exactly n - P
\* rows right below the last placeholder row, each formatted as the row
\* before it; n <= P inserts no row and insert_products returns 0.
C26_Original ==
    (writer # "idle" /\ ProductsWritten) =>
        /\ offset = Max(0, Len(data.products) - PLACEHOLDER_ROWS)
        /\ InsertedRows = (LastPlaceholderRow + 1)..(LastPlaceholderRow + offset)
        /\ \A r \in InsertedRows : SameFormatting(r, r - 1)

\* PO_excel has inserted a row for a fourth product: the row has neither
\* the formatting nor the height of the placeholder row above it.
C26_Witness ==
    /\ writer = "PO_excel"
    /\ w_pc = "done" /\ saved
    /\ Len(data.products) = PLACEHOLDER_ROWS + 1
    /\ offset = 1
    /\ InsertedRows = {LastPlaceholderRow + 1}
    /\ StyleAt(ws, << ColA, LastPlaceholderRow >>) = "product"
    /\ StyleAt(ws, << ColA, LastPlaceholderRow + 1 >>) = "default"
    /\ HeightAt(ws, LastPlaceholderRow + 1) # HeightAt(ws, LastPlaceholderRow)

(***************************************************************************)
(*                    PROPERTIES: FACTORY GROUPING                         *)
(***************************************************************************)

\* The SKUs of the bill of materials that have a template.
TemplatedSkus == ItemSkus \cap DOMAIN gn_templates

\* The B3 value of the SKU's template ("factory" for a template without B3).
B3ValueOf(sku) ==
    IF "B3" \in DOMAIN gn_templates[sku].cells
    THEN gn_templates[sku].cells["B3"].value
    ELSE "factory"

B3Values == { B3ValueOf(s) : s \in TemplatedSkus }

ProductSkusOf(doc) == { doc.products[j].sku : j \in 1..Len(doc.products) }

\* C27: generate_factory_jsons groups the templates by their B3 value: every
\* SKU with a template is in exactly one written document, there is exactly
\* one document per distinct B3 value, and the products of that document
\* are those of the templates with that B3 value, each once.
C27_OneDocumentPerFactory ==
    gn_pc = "done" =>
        /\ Len(gn_out) = Cardinality(B3Values)
        /\ \A s \in TemplatedSkus :
              Cardinality({ k \in 1..Len(gn_out) : s \in ProductSkusOf(gn_out[k].doc) }) = 1
        /\ \A v \in B3Values :
              \E k \in 1..Len(gn_out) :
                  /\ ProductSkusOf(gn_out[k].doc) = { s \in TemplatedSkus : B3ValueOf(s) = v }
                  /\ Len(gn_out[k].doc.products) = Cardinality(ProductSkusOf(gn_out[k].doc))
                  /\ "B3" \in DOMAIN gn_out[k].doc.cells => gn_out[k].doc.cells["B3"].value = v
        /\ \A k \in 1..Len(gn_out) : gn_out[k].counter = k

\* Three SKUs with templates, two of them of the same factory: two
\* documents were written, one of them with two products.
C27_Witness ==
    /\ gn_pc = "done"
    /\ Cardinality(TemplatedSkus) = 3
    /\ Cardinality(B3Values) = 2
    /\ Len(gn_out) = 2
    /\ \E k \in 1..2 : Len(gn_out[k].doc.products) = 2

\* The column of the table header that names the SKU.
SkuColumns(g, h) == { c \in DOMAIN header_of(g, h) : header_of(g, h)[c] = "sku" }

\* The text of the row's SKU cell, as read from the sheet.
SkuTextAt(g, h, r) == cell_text(g, << CHOOSE c \in SkuColumns(g, h) : TRUE, r >>)

\* C28: the keyword-based extraction keeps the SKU of every product as the
\* text read from the sheet, digits or not, and the accessory name is looked
\* up under that text.
C28_Original ==
    (TableParsed /\ SkuColumns(grid, x_header) # {}) =>
        \A i \in 1..Len(x_products) :
            LET sku == SkuTextAt(grid, x_header, x_header + i)
            IN  /\ x_products[i]["sku"] = Txt(sku)
                /\ ACCESSORY_NAME(sku) # NoneText =>
                      /\ "name" \in DOMAIN x_products[i]
                      /\ x_products[i]["name"] = Txt(ACCESSORY_NAME(sku))

\* The SKU "07", a child of A known to the accessory map, came back as the
\* number 7, without name, and in a group of its own.
C28_Witness ==
    /\ TableParsed
    /\ x_pc = "write"
    /\ \E i \in 1..Len(x_products) :
          /\ SkuTextAt(grid, x_header, x_header + i) = Sku07
          /\ x_products[i]["sku"] = Num(7)
          /\ "name" \notin DOMAIN x_products[i]
          /\ \E k \in 1..Len(x_docs) : x_docs[k].products = << x_products[i] >>
    /\ \E j \in 1..Len(x_products) : x_products[j]["sku"] = Txt(SkuA1)

(***************************************************************************)
(*                    PROPERTIES: WRITE AND READ BACK                      *)
(***************************************************************************)

ReadBackDone == writer = "json_PO_excel" /\ saved /\ x_pc = "done" /\ Len(x_written) = 1

\* C29: a document written by create_order_workbook and extracted again by
\* parse_order comes back with the buyer and supplier it was written with,
\* whatever the number of products.
C29_Original ==
    ReadBackDone =>
        \A k \in DOMAIN data.footer :
            /\ k \in DOMAIN x_written[1].doc.footer
            /\ x_written[1].doc.footer[k] = data.footer[k]

\* Four products were written, the footer went to row 70 and the extraction
\* found no footer at row 69.
C29_Witness ==
    /\ ReadBackDone
    /\ Len(data.products) = PLACEHOLDER_ROWS + 1
    /\ Len(x_written[1].doc.products) = PLACEHOLDER_ROWS + 1
    /\ DOMAIN data.footer = {"buyer", "supplier"}
    /\ ValueAt(ws, << ColB, BUYER_ROW + 1 >>) = Txt(data.footer["buyer"])
    /\ x_written[1].doc.footer = EmptyMap

(***************************************************************************)
(*                     PROPERTIES: SCAN TERMINATION                        *)
(***************************************************************************)

\* The last row of the grid that holds a cell, 0 for a grid without cells.
LastPopulatedRow(g) == IF DOMAIN g = {} THEN 0 ELSE max_row(g)

\* The row at which the running row scan started.
ScanStart == IF x_impl = "style" THEN FirstStyleRow ELSE x_header + 1

RowScanRunning == x_pc \in {"rows", "table"}

\* The row scan has not gone past its start row or the first row below the
\* last populated one, whichever is lower down.
RowScanBounded ==
    RowScanRunning => x_row <= Max(ScanStart, LastPopulatedRow(grid) + 1)

\* The upward scan looks at rows of the sheet only, and gives up at row 1.
UpwardScanBounded ==
    /\ sc_pc = "up" => sc_r \in 0..(sc_address[2] - 1)
    /\ sc_pc = "done" => sc_key = guess_key(sc_address, sc_cells)

\* C30: every extraction scan terminates on every finite grid: the row scan
\* of the style-based and of the keyword-based detection ends no later than
\* at the first row past the last populated row of the grid, the upward scan
\* of the label resolver at row 1.
C30_ScansTerminate ==
    /\ []RowScanBounded
    /\ []UpwardScanBounded
    /\ (x_pc = "rows") ~> (x_pc = "yellow")
    /\ (x_pc = "table") ~> (x_pc = "collect")
    /\ (sc_pc \in {"left", "up"}) ~> (sc_pc = "done")

\* The style-based scan has run through every row of a sheet whose last
\* row is a product row, and stopped below it.
C30_Witness ==
    /\ x_impl = "style"
    /\ x_pc = "yellow"
    /\ Len(x_products) >= 2
    /\ x_row = LastPopulatedRow(grid) + 1

\* The upward scan went through every row above the cell and found no label.
C30_UpwardWitness ==
    /\ sc_pc = "done"
    /\ sc_address[2] = MaxGridRows
    /\ sc_r = 0
    /\ sc_key = <<>>
====
